---------------------------- MODULE Spec2Model ----------------------------
(***************************************************************************)
(* MiniLedger: a Raft-replicated chain of blocks whose committed log       *)
(* entries are applied to a versioned key-value world state.               *)
(*                                                                         *)
(* The module models                                                       *)
(*   - the storage layer (world state, state root, pending pool, nonces,   *)
(*     atomic block application)          docs/architecture/storage.md     *)
(*   - the Raft node (election, replication, commit, apply)                *)
(*                                        architecture/consensus           *)
(*   - the peer map the Raft node reads its voter list from                *)
(*                                        docs/architecture/networking.md  *)
(***************************************************************************)
EXTENDS Integers, Sequences, FiniteSets, TLC

(***************************************************************************)
(* Bounds of the model.                                                    *)
(***************************************************************************)
MaxTerm == 2
MaxLogLen == 2
FMaxTerm == 2
FMaxLogLen == 1
FMaxFaults == 2
MaxInFlight == 3
MaxHeartbeats == 2
SMaxTerm == 2
SMaxLogLen == 2
SMaxInFlight == 4
SMaxFaults == 1
LMaxTerm == 2
LMaxLogLen == 1
LMaxInFlight == 3
EMaxTerm == 3
EMaxLogLen == 2
JMaxTerm == 2
JMaxLogLen == 1
JMaxInFlight == 3
JMaxHeartbeats == 1
CMaxTerm == 1
CMaxLogLen == 2
CMaxInFlight == 4
CMaxFaults == 1
YMaxTerm == 1
YMaxLogLen == 2
YMaxInFlight == 3
YMaxHeartbeats == 1
HMaxTerm == 1
HMaxLogLen == 1
HMaxInFlight == 3
HMaxPings == 2
MaxVersion == 2
MaxDials == 1
MaxSeeds == 3

(***************************************************************************)
(* The cluster of the demo and of the fault-tolerance table: three nodes.  *)
(***************************************************************************)
Nodes == {"n1", "n2", "n3"}
Nil == "nil"

\* No StateStore method called yet.
NoCall == [method |-> "none", node |-> Nil, value |-> Nil]

Follower == "follower"
Candidate == "candidate"
Leader == "leader"

(***************************************************************************)
(* Hashing.  SHA-256 is modelled as an injective constructor over its      *)
(* preimage (the collision-resistance assumption of the design).           *)
(***************************************************************************)
sha256Hex(s) == <<"sha256", s>>
GenesisHash == "genesis"
ZeroRoot == "0000000000000000000000000000000000000000000000000000000000000000"

(***************************************************************************)
(* Transactions.  hash = SHA-256 over (type, sender, nonce, payload).      *)
(***************************************************************************)
txHash(type, sender, nonce, key, value) ==
    sha256Hex(<<type, sender, nonce, key, value>>)

mkTx(type, sender, nonce, key, value) ==
    [hash |-> txHash(type, sender, nonce, key, value),
     type |-> type, sender |-> sender, nonce |-> nonce,
     key |-> key, value |-> value]

\* Two distinct transactions of one sender carrying the same nonce.
TxA == mkTx("state:set", "s1", 0, "a", "1")
TxB == mkTx("state:set", "s1", 0, "a", "2")
TxUniverse == {TxA, TxB}
Senders == {"s1"}

\* World-state keys, in ascending order (ORDER BY key ASC); a key is any
\* text and may hold the characters the serialization uses.
KeyOrder == <<"a", "a:1:1|b", "b">>
Keys == {KeyOrder[i] : i \in 1..Len(KeyOrder)}
NoRow == [value |-> "", version |-> 0]

(***************************************************************************)
(* StateStore.                                                             *)
(***************************************************************************)
EmptyWorld == [k \in Keys |-> NoRow]

hasRow(ws, k) == ws[k].version > 0

\* StateStore.set: UPSERT with version increment (first write: version 1).
stateSet(ws, key, value) ==
    [ws EXCEPT ![key] = [value |-> value, version |-> ws[key].version + 1]]

\* StateStore.delete: the row is removed.
stateDelete(ws, key) == [ws EXCEPT ![key] = NoRow]

\* applyTransaction: the payload of a transaction applied to the world state.
applyTransaction(ws, tx) ==
    IF tx.type = "state:set" THEN stateSet(ws, tx.key, tx.value)
    ELSE IF tx.type = "state:delete" THEN stateDelete(ws, tx.key)
    ELSE ws

RECURSIVE applyTransactions(_, _)
applyTransactions(ws, txs) ==
    IF txs = <<>> THEN ws
    ELSE applyTransactions(applyTransaction(ws, Head(txs)), Tail(txs))

\* One row rendered as key:value:version.
rowString(ws, k) == k \o ":" \o ws[k].value \o ":" \o ToString(ws[k].version)

\* The rows from position i of the key order on, joined by "|".
RECURSIVE stateStringFrom(_, _)
stateStringFrom(ws, i) ==
    IF i > Len(KeyOrder) THEN ""
    ELSE LET rest == stateStringFrom(ws, i + 1)
         IN  IF ~hasRow(ws, KeyOrder[i]) THEN rest
             ELSE IF rest = "" THEN rowString(ws, KeyOrder[i])
             ELSE rowString(ws, KeyOrder[i]) \o "|" \o rest

\* A state root computed without the test for the empty table.
computeStateRoot_NoEmptyCase(ws) == sha256Hex(stateStringFrom(ws, 1))

computeStateRoot(ws) ==
    IF \A k \in Keys : ~hasRow(ws, k) THEN ZeroRoot
    ELSE sha256Hex(stateStringFrom(ws, 1))

(***************************************************************************)
(* TxStore: the pending pool (ordered by received time) and the nonces.    *)
(***************************************************************************)
maxTxPerBlock == 100
NoNonce == -1

poolHashes(pool) == {pool[i].hash : i \in 1..Len(pool)}

\* tx_pool is keyed by hash: a hash already pooled is not pooled again.
addToPending(pool, tx) ==
    IF tx.hash \in poolHashes(pool) THEN pool ELSE Append(pool, tx)

getPending(pool, limit) == SubSeq(pool, 1, IF Len(pool) < limit THEN Len(pool) ELSE limit)

removePending(pool, hashes) == SelectSeq(pool, LAMBDA t : t.hash \notin hashes)

\* nonces holds the last-used nonce of a sender; no row: the next nonce is 0.
getNextNonce(nonces, sender) ==
    IF nonces[sender] = NoNonce THEN 0 ELSE nonces[sender] + 1

updateNonce(nonces, sender, nonce) == [nonces EXCEPT ![sender] = nonce]

RECURSIVE updateNonces(_, _)
updateNonces(nonces, txs) ==
    IF txs = <<>> THEN nonces
    ELSE updateNonces(updateNonce(nonces, Head(txs).sender, Head(txs).nonce), Tail(txs))

(***************************************************************************)
(* Blocks and the chain.  The header hash covers height, previousHash,     *)
(* merkleRoot, stateRoot and proposer; the timestamp is left out of the    *)
(* model, so two blocks that differ only in it are one block here.         *)
(***************************************************************************)
txHashes(txs) == [i \in 1..Len(txs) |-> txs[i].hash]
computeMerkleRoot(txs) == sha256Hex(<<"merkle", txHashes(txs)>>)

computeBlockHash(height, previousHash, merkleRoot, stateRoot, proposer) ==
    sha256Hex(<<height, previousHash, merkleRoot, stateRoot, proposer>>)

sign(hash, key) == <<"sig", key, hash>>

getHeight(chain) == Len(chain)
getTipHash(chain) == IF chain = <<>> THEN GenesisHash ELSE chain[Len(chain)].hash

\* Chain.proposeBlock followed by the proposer's signature.
proposeSignedBlock(chain, pending, proposer, stateRoot) ==
    LET height == getHeight(chain) + 1
        prev == getTipHash(chain)
        merkle == computeMerkleRoot(pending)
        hash == computeBlockHash(height, prev, merkle, stateRoot, proposer)
    IN  [height |-> height, previousHash |-> prev, merkleRoot |-> merkle,
         stateRoot |-> stateRoot, proposer |-> proposer, hash |-> hash,
         signature |-> sign(hash, proposer), transactions |-> pending]

\* A chain that appends whatever block it is handed.
linksToTip_Unchecked(chain, block) == TRUE

\* Chain.appendBlock accepts a block only on top of the current tip.
linksToTip(chain, block) ==
    /\ block.height = getHeight(chain) + 1
    /\ block.previousHash = getTipHash(chain)

(***************************************************************************)
(* State.                                                                  *)
(*   node[n]    everything node n owns: its Raft fields (currentTerm,      *)
(*              votedFor, log, role, leaderId, commitIndex, lastApplied,   *)
(*              nextIndex, matchIndex, votes, the two timers), its         *)
(*              in-memory chain, its database tables (blocks, worldState,  *)
(*              txPool, nonces) and the history of the blocks its          *)
(*              onBlockCommitted callback was handed (committed)           *)
(*   peers[n]   the node ids in n's peer map                               *)
(*   alive[n]   whether the process of n runs                              *)
(*   chan[a,b]  the messages in flight on the connection from a to b,      *)
(*              oldest first                                               *)
(*   faults     crashes, connection failures and storage faults so far     *)
(*   beats      firings of heartbeat timers so far                         *)
(*   receipts   what the client was told for each transaction it submitted *)
(*   mesh       the connections of the peer managers, handshake by         *)
(*              handshake: their two ends, the messages on them, the       *)
(*              connection behind each peer-map entry, the addresses still *)
(*              to dial                                                    *)
(*   ret        what the last call of a StateStore method returned         *)
(***************************************************************************)
VARIABLES node, peers, alive, chan, faults, beats, receipts, mesh, ret

vars == <<node, peers, alive, chan, faults, beats, receipts, mesh, ret>>

(***************************************************************************)
(* Atomic block application (the onBlockCommitted callback of the          *)
(* orchestrator, also used by block sync):                                 *)
(*     db.transaction(() => {                                              *)
(*       for tx of block.transactions: applyTransaction(tx, height)        *)
(*       chain.appendBlock(block)                                          *)
(*       blockStore.insert(block)                                          *)
(*       txStore.removePending(hashes)                                     *)
(*       for tx of block.transactions: txStore.updateNonce(sender, nonce)  *)
(*     })()                                                                *)
(* fault names the step at which the storage engine throws ("none": no     *)
(* storage fault).  appendBlock throws on a block that does not link to    *)
(* the tip, insert throws on a height the blocks table already holds.  A   *)
(* throw rolls the database back; the chain is an in-memory object and     *)
(* keeps what appendBlock did to it.                                       *)
(***************************************************************************)
StorageFaults == {"none", "applyTransaction", "insert", "removePending", "updateNonce"}

heightsOf(blocks) == {blocks[i].height : i \in 1..Len(blocks)}

applyBlock(r, block, fault) ==
    LET txs == block.transactions
        hashes == {txs[i].hash : i \in 1..Len(txs)}
        linked == linksToTip(r.chain, block)
        appended == fault # "applyTransaction" /\ linked
        inserted == appended /\ fault # "insert"
                             /\ block.height \notin heightsOf(r.blocks)
        done == inserted /\ fault \notin {"removePending", "updateNonce"}
    IN  [r EXCEPT
           !.chain = IF appended THEN Append(r.chain, block) ELSE r.chain,
           !.blocks = IF done THEN Append(r.blocks, block) ELSE r.blocks,
           !.worldState = IF done THEN applyTransactions(r.worldState, txs)
                          ELSE r.worldState,
           !.txPool = IF done THEN removePending(r.txPool, hashes) ELSE r.txPool,
           !.nonces = IF done THEN updateNonces(r.nonces, txs) ELSE r.nonces]

\* The callback as the Raft node invokes it: the block is recorded as handed
\* to the orchestrator, which applies it with no storage fault injected.
onBlockCommitted(r, block) ==
    [applyBlock(r, block, "none") EXCEPT !.committed = Append(r.committed, block)]

(***************************************************************************)
(* Maps (nextIndex, matchIndex): functions over the node ids set so far.   *)
(***************************************************************************)
EmptyMap == [p \in {} |-> 0]
mapGet(f, k, default) == IF k \in DOMAIN f THEN f[k] ELSE default
mapSet(f, k, v) == [p \in (DOMAIN f) \cup {k} |-> IF p = k THEN v ELSE f[p]]
mapSetAll(f, ks, v) == [p \in (DOMAIN f) \cup ks |-> IF p \in ks THEN v ELSE f[p]]

Min(a, b) == IF a < b THEN a ELSE b
Max(a, b) == IF a > b THEN a ELSE b

(***************************************************************************)
(* RaftLog.                                                                *)
(***************************************************************************)
getLastIndex(log) == Len(log)
getLastTerm(log) == IF log = <<>> THEN 0 ELSE log[Len(log)].term
hasEntry(log, i) == i \in 1..Len(log)
termAt(log, i) == IF hasEntry(log, i) THEN log[i].term ELSE 0

\* PeerManager.getKnownNodeIds: the node ids of the peer map (a node is
\* known when this.peers has it).
getKnownNodeIds(n) == peers[n]

\* Strict majority of a voter count.
majorityOf(count) == (count \div 2) + 1

(***************************************************************************)
(* RaftNode: the procedures the handlers call.                             *)
(***************************************************************************)
\* A voter that does not compare logs.
isLogUpToDate_AnyLog(log, lastLogIndex, lastLogTerm) == TRUE

isLogUpToDate(log, lastLogIndex, lastLogTerm) ==
    IF lastLogTerm # getLastTerm(log)
    THEN lastLogTerm > getLastTerm(log)
    ELSE lastLogIndex >= getLastIndex(log)

\* A step-down that leaves the heartbeat timer running.
stepDown_KeepsHeartbeatTimer(r, newTerm) ==
    [r EXCEPT !.currentTerm = newTerm, !.role = Follower, !.votedFor = Nil,
              !.electionTimer = TRUE]

stepDown(r, newTerm) ==
    [r EXCEPT !.currentTerm = newTerm, !.role = Follower, !.votedFor = Nil,
              !.heartbeatTimer = FALSE, !.electionTimer = TRUE]

\* while (lastApplied < commitIndex) { lastApplied++; entry = getEntry(lastApplied);
\*                                     if (entry) onBlockCommitted(entry.block) }
RECURSIVE applyCommitted(_)
applyCommitted(r) ==
    IF r.lastApplied < r.commitIndex
    THEN LET i == r.lastApplied + 1
             r1 == [r EXCEPT !.lastApplied = i]
         IN  applyCommitted(IF hasEntry(r.log, i)
                            THEN onBlockCommitted(r1, r.log[i].block)
                            ELSE r1)
    ELSE r

\* The number of nodes of allNodeIds whose match index reaches n.
replicatedCount(r, self, allNodeIds, n) ==
    Cardinality({id \in allNodeIds :
                   (IF id = self THEN getLastIndex(r.log)
                    ELSE mapGet(r.matchIndex, id, 0)) >= n})

\* A commit scan that counts replicas alone, without the term test: the
\* variant the current-term commit rule excludes.
isCurrentTerm_AnyTerm(r, n) == hasEntry(r.log, n)

\* The current-term test of the commit scan.
isCurrentTerm(r, n) == hasEntry(r.log, n) /\ r.log[n].term = r.currentTerm

\* The indices the commit scan may pick: current-term entries above
\* commitIndex that a majority of allNodeIds holds.
commitCandidates(r, self, allNodeIds) ==
    {n \in (r.commitIndex + 1)..getLastIndex(r.log) :
        /\ isCurrentTerm(r, n)
        /\ replicatedCount(r, self, allNodeIds, n) >= majorityOf(Cardinality(allNodeIds))}

\* The scan runs from the newest entry down and stops at the first hit.
advanceCommitIndex(r, self, knownIds) ==
    LET allNodeIds == knownIds \cup {self}
        hits == commitCandidates(r, self, allNodeIds)
    IN  IF r.role # Leader \/ hits = {} THEN r
        ELSE applyCommitted([r EXCEPT !.commitIndex =
                                 CHOOSE n \in hits : \A m \in hits : m <= n])

\* AppendEntries for one peer, from the leader's nextIndex of that peer.
appendEntriesFor(r, self, p) ==
    LET next == Max(mapGet(r.nextIndex, p, getLastIndex(r.log) + 1), 1)
        prev == next - 1
    IN  [mtype |-> "AppendEntries", from |-> self, to |-> p,
         term |-> r.currentTerm, leaderId |-> self,
         prevLogIndex |-> prev, prevLogTerm |-> termAt(r.log, prev),
         entries |-> SubSeq(r.log, next, Len(r.log)),
         leaderCommit |-> r.commitIndex]

\* sendHeartbeats: one AppendEntries to every known peer.
sendHeartbeats(r, self, knownIds) == {appendEntriesFor(r, self, p) : p \in knownIds}

\* A leader that never starts its heartbeat timer.
becomeLeader_NoHeartbeatTimer(r, self, knownIds) ==
    [r EXCEPT !.role = Leader, !.leaderId = self,
              !.electionTimer = FALSE, !.heartbeatTimer = FALSE,
              !.nextIndex = mapSetAll(r.nextIndex, knownIds, getLastIndex(r.log) + 1),
              !.matchIndex = mapSetAll(r.matchIndex, knownIds, 0)]

becomeLeader(r, self, knownIds) ==
    [r EXCEPT !.role = Leader, !.leaderId = self,
              !.electionTimer = FALSE, !.heartbeatTimer = TRUE,
              !.nextIndex = mapSetAll(r.nextIndex, knownIds, getLastIndex(r.log) + 1),
              !.matchIndex = mapSetAll(r.matchIndex, knownIds, 0)]

\* RaftNode.proposeBlock: append, record the own match index, replicate,
\* then try to commit.  The result is the node and the messages sent.
proposeBlock(r, self, block, knownIds) ==
    LET entry == [term |-> r.currentTerm, block |-> block]
        r1 == [r EXCEPT !.log = Append(r.log, entry),
                        !.matchIndex = mapSet(r.matchIndex, self, Len(r.log) + 1)]
    IN  IF r.role # Leader THEN [node |-> r, out |-> {}]
        ELSE [node |-> advanceCommitIndex(r1, self, knownIds),
              out |-> sendHeartbeats(r1, self, knownIds)]

(***************************************************************************)
(* The message handlers of the Raft node: each yields the node after the   *)
(* handler and the messages it sent.                                       *)
(***************************************************************************)
\* An election without the single-voter shortcut: the candidate waits for
\* replies even when it has nobody to ask.
startElection_AlwaysAsks(r, self, knownIds) ==
    LET r1 == [r EXCEPT !.currentTerm = r.currentTerm + 1, !.role = Candidate,
                        !.votedFor = self, !.votes = {self},
                        !.electionTimer = TRUE]
    IN  [node |-> r1,
         out |-> {[mtype |-> "RequestVote", from |-> self, to |-> p,
                   term |-> r1.currentTerm, candidateId |-> self,
                   lastLogIndex |-> getLastIndex(r.log),
                   lastLogTerm |-> getLastTerm(r.log)] : p \in knownIds}]

\* Election timeout: become Candidate of the next term, vote for self; the
\* sole voter of a one-node cluster wins at once, without any RequestVote.
startElection(r, self, knownIds) ==
    LET totalVoters == Cardinality(knownIds) + 1
        r1 == [r EXCEPT !.currentTerm = r.currentTerm + 1, !.role = Candidate,
                        !.votedFor = self, !.votes = {self},
                        !.electionTimer = TRUE]
    IN  IF totalVoters = 1
        THEN LET r2 == becomeLeader(r1, self, knownIds)
             IN  [node |-> r2, out |-> sendHeartbeats(r2, self, knownIds)]
        ELSE [node |-> r1,
              out |-> {[mtype |-> "RequestVote", from |-> self, to |-> p,
                        term |-> r1.currentTerm, candidateId |-> self,
                        lastLogIndex |-> getLastIndex(r.log),
                        lastLogTerm |-> getLastTerm(r.log)] : p \in knownIds}]

\* The vote is granted when the terms are equal (after a step-down on a
\* higher term), no other candidate has this term's vote, and the
\* candidate's log is at least as up to date.
grantsVote(r, m) ==
    /\ m.term = r.currentTerm
    /\ r.votedFor \in {Nil, m.candidateId}
    /\ isLogUpToDate(r.log, m.lastLogIndex, m.lastLogTerm)

handleRequestVote(r, self, m) ==
    LET r1 == IF m.term > r.currentTerm THEN stepDown(r, m.term) ELSE r
        grant == grantsVote(r1, m)
        r2 == IF grant THEN [r1 EXCEPT !.votedFor = m.candidateId,
                                       !.electionTimer = TRUE]
              ELSE r1
    IN  [node |-> r2,
         out |-> {[mtype |-> "RequestVoteReply", from |-> self, to |-> m.from,
                   term |-> r2.currentTerm, voteGranted |-> grant]}]

\* The candidate tallies the grants of its current term; a strict majority
\* of the known voters makes it Leader, and it sends a heartbeat at once.
handleRequestVoteReply(r, self, m, knownIds) ==
    IF m.term > r.currentTerm THEN [node |-> stepDown(r, m.term), out |-> {}]
    ELSE IF r.role = Candidate /\ m.term = r.currentTerm /\ m.voteGranted
    THEN LET r1 == [r EXCEPT !.votes = r.votes \cup {m.from}]
             totalVoters == Cardinality(knownIds) + 1
         IN  IF Cardinality(r1.votes) >= majorityOf(totalVoters)
             THEN LET r2 == becomeLeader(r1, self, knownIds)
                  IN  [node |-> r2, out |-> sendHeartbeats(r2, self, knownIds)]
             ELSE [node |-> r1, out |-> {}]
    ELSE [node |-> r, out |-> {}]

\* A consistency check that accepts every prevLogIndex.
logMatches_Always(log, prevLogIndex, prevLogTerm) == TRUE

\* Step 3 of the follower: the entry at prevLogIndex has term prevLogTerm.
logMatches(log, prevLogIndex, prevLogTerm) ==
    prevLogIndex <= 0 \/ (hasEntry(log, prevLogIndex)
                            /\ log[prevLogIndex].term = prevLogTerm)

\* Step 4 of the follower: an existing entry with another term at the index
\* of a new entry truncates the log from there on; new entries are appended.
RECURSIVE appendNewEntries(_, _, _)
appendNewEntries(log, index, entries) ==
    IF entries = <<>> THEN log
    ELSE IF hasEntry(log, index) /\ log[index].term = Head(entries).term
    THEN appendNewEntries(log, index + 1, Tail(entries))
    ELSE appendNewEntries(Append(SubSeq(log, 1, index - 1), Head(entries)),
                          index + 1, Tail(entries))

\* Step 5 of the follower: commitIndex = min(leaderCommit, lastLogIndex).
followerCommitIndex(r, leaderCommit, lastLogIndex) == Min(leaderCommit, lastLogIndex)

\* A node that handles AppendEntries without giving up its candidacy.
handleAppendEntries_StaysCandidate(r, self, m) ==
    LET r1 == IF m.term > r.currentTerm THEN stepDown(r, m.term) ELSE r
        reply(ok, match) ==
            {[mtype |-> "AppendEntriesReply", from |-> self, to |-> m.from,
              term |-> r1.currentTerm, success |-> ok, matchIndex |-> match]}
    IN  IF m.term < r1.currentTerm THEN [node |-> r1, out |-> reply(FALSE, 0)]
        ELSE LET r2 == [r1 EXCEPT !.electionTimer = TRUE, !.leaderId = m.leaderId]
             IN  IF ~logMatches(r2.log, m.prevLogIndex, m.prevLogTerm)
                 THEN [node |-> r2, out |-> reply(FALSE, 0)]
                 ELSE LET log2 == appendNewEntries(r2.log, m.prevLogIndex + 1, m.entries)
                          r3 == [r2 EXCEPT !.log = log2,
                                    !.commitIndex =
                                       followerCommitIndex(r2, m.leaderCommit, Len(log2))]
                      IN  [node |-> applyCommitted(r3),
                           out |-> reply(TRUE, m.prevLogIndex + Len(m.entries))]

handleAppendEntries(r, self, m) ==
    LET r1 == IF m.term > r.currentTerm THEN stepDown(r, m.term) ELSE r
        reply(ok, match) ==
            {[mtype |-> "AppendEntriesReply", from |-> self, to |-> m.from,
              term |-> r1.currentTerm, success |-> ok, matchIndex |-> match]}
    IN  IF m.term < r1.currentTerm THEN [node |-> r1, out |-> reply(FALSE, 0)]
        ELSE LET r2 == [r1 EXCEPT !.electionTimer = TRUE,
                                  !.leaderId = m.leaderId,
                                  !.role = IF r1.role = Candidate THEN Follower
                                           ELSE r1.role]
             IN  IF ~logMatches(r2.log, m.prevLogIndex, m.prevLogTerm)
                 THEN [node |-> r2, out |-> reply(FALSE, 0)]
                 ELSE LET log2 == appendNewEntries(r2.log, m.prevLogIndex + 1, m.entries)
                          r3 == [r2 EXCEPT !.log = log2,
                                    !.commitIndex =
                                       followerCommitIndex(r2, m.leaderCommit, Len(log2))]
                      IN  [node |-> applyCommitted(r3),
                           out |-> reply(TRUE, m.prevLogIndex + Len(m.entries))]

\* Success: nextIndex = matchIndex + 1, matchIndex recorded, commit scan.
\* Failure: nextIndex decremented and the AppendEntries sent again at once.
handleAppendEntriesReply(r, self, m, knownIds) ==
    IF m.term > r.currentTerm THEN [node |-> stepDown(r, m.term), out |-> {}]
    ELSE IF r.role # Leader \/ m.term # r.currentTerm THEN [node |-> r, out |-> {}]
    ELSE IF m.success
    THEN LET r1 == [r EXCEPT !.nextIndex = mapSet(r.nextIndex, m.from, m.matchIndex + 1),
                             !.matchIndex = mapSet(r.matchIndex, m.from, m.matchIndex)]
         IN  [node |-> advanceCommitIndex(r1, self, knownIds), out |-> {}]
    ELSE LET next == mapGet(r.nextIndex, m.from, getLastIndex(r.log) + 1)
             r1 == [r EXCEPT !.nextIndex = mapSet(r.nextIndex, m.from, next - 1)]
         IN  [node |-> r1, out |-> {appendEntriesFor(r1, self, m.from)}]

(***************************************************************************)
(* Transaction intake.  A transaction is accepted when its nonce is the    *)
(* sender's next nonce.                                                    *)
(***************************************************************************)
acceptsTx(r, tx) == tx.nonce = getNextNonce(r.nonces, tx.sender)

intake(r, tx) == IF acceptsTx(r, tx) THEN [r EXCEPT !.txPool = addToPending(r.txPool, tx)]
                 ELSE r

\* RaftNode.forwardToLeader: to the known leader, when that is another node.
forwardToLeader(r, self, tx) ==
    IF r.leaderId # Nil /\ r.leaderId # self
    THEN {[mtype |-> "TxForward", from |-> self, to |-> r.leaderId, tx |-> tx]}
    ELSE {}

(***************************************************************************)
(* The network: one ordered channel per connection and direction.          *)
(***************************************************************************)
Pairs == {pr \in Nodes \X Nodes : pr[1] # pr[2]}

connected(a, b) == alive[a] /\ alive[b] /\ b \in peers[a] /\ a \in peers[b]

\* PeerManager.sendTo / broadcast: a message leaves only over a connection
\* of the peer map; out holds at most one message per destination.
deliver(ch, out) ==
    [pr \in Pairs |->
        LET ms == {m \in out : m.from = pr[1] /\ m.to = pr[2]}
        IN  IF ms # {} /\ connected(pr[1], pr[2])
            THEN Append(ch[pr], CHOOSE m \in ms : TRUE)
            ELSE ch[pr]]

RECURSIVE sumLen(_, _)
sumLen(ch, prs) ==
    IF prs = {} THEN 0
    ELSE LET pr == CHOOSE x \in prs : TRUE
         IN  Len(ch[pr]) + sumLen(ch, prs \ {pr})

inFlight(ch) == sumLen(ch, Pairs)

\* The bound on the messages in flight: a step may not push the network
\* above limit (a step that does not add messages is always allowed).
withinNetworkBound(limit) == inFlight(chan') <= Max(limit, inFlight(chan))

pop(ch, a, b) == [ch EXCEPT ![<<a, b>>] = Tail(ch[<<a, b>>])]

closeConnection(ch, a, b) == [ch EXCEPT ![<<a, b>>] = <<>>, ![<<b, a>>] = <<>>]

(***************************************************************************)
(* PeerManager, one handshake at a time.  A connection is dialled, the     *)
(* dialler sends HANDSHAKE, the listener validates it, registers the peer  *)
(* and answers HANDSHAKE_ACK and PEER_LIST.                                *)
(***************************************************************************)
\* <<d, t, k>>: the k-th connection d dials to the address of t (a node
\* may be given its own address).
Conns == Nodes \X Nodes \X (1..MaxDials)

IdleConn == [dialler |-> "idle", listener |-> "idle", down |-> <<>>, up |-> <<>>]

\* No connection dialled, empty peer maps, no address configured;
\* chainHeight[n][p] is Peer.chainHeight of p in the peer manager of n.
NoMesh ==
    [conn |-> [c \in Conns |-> IdleConn],
     entry |-> [n \in Nodes |-> EmptyMap],
     toDial |-> [n \in Nodes |-> {}],
     seeds |-> [n \in Nodes |-> {}],
     overrun |-> FALSE,
     chainHeight |-> [n \in Nodes |-> [p \in Nodes |-> 0]]]

Handshake(from) == [type |-> "HANDSHAKE", nodeId |-> from]
HandshakeAck(from) == [type |-> "HANDSHAKE_ACK", nodeId |-> from, accepted |-> TRUE]
PeerList(ids) == [type |-> "PEER_LIST", peers |-> ids]
Closed == [type |-> "CLOSE"]

\* A handshake handler that lets a second connection of a known identity in.
rejectsHandshake_NoDuplicateCheck(me, known, nodeId) == nodeId = me

\* The handshake handler closes the connection of a peer that claims the
\* local node id or a node id the peer map already has.
rejectsHandshake(me, known, nodeId) == nodeId = me \/ nodeId \in known

\* sharePeerList: the connected peers of the map other than the recipient.
sharePeerList(entry, to) == {p \in DOMAIN entry : p # to}

\* handlePeerList: the listed peers that are neither the node itself nor
\* in its peer map; the node connects to each of them.
handlePeerList(me, known, listed) == {p \in listed : p # me /\ p \notin known}

\* connectTo: d opens a connection to the address of t and sends HANDSHAKE
\* (overrun: the connections from d to t are used up).
connectTo(m, d, t) ==
    LET free == {c \in Conns : c[1] = d /\ c[2] = t /\ m.conn[c].dialler = "idle"}
    IN  IF free = {} THEN [m EXCEPT !.overrun = TRUE]
        ELSE LET c == CHOOSE x \in free : \A o \in free : x[3] <= o[3]
             IN  [m EXCEPT !.conn[c] =
                     [dialler |-> "connecting", listener |-> "connecting",
                      down |-> <<Handshake(d)>>, up |-> <<>>]]

RECURSIVE connectToAll(_, _, _)
connectToAll(m, d, ts) ==
    IF ts = {} THEN m
    ELSE LET t == CHOOSE x \in ts : TRUE
         IN  connectToAll(connectTo(m, d, t), d, ts \ {t})

\* The peer map of n without the entries that stand on connection c.
withoutConn(entry, c) == [p \in {q \in DOMAIN entry : entry[q] # c} |-> entry[p]]

\* The listener's handshake handler on connection c.
handleHandshake(m, c) ==
    LET t == c[2]
        nodeId == Head(m.conn[c].down).nodeId
    IN  IF rejectsHandshake(t, DOMAIN m.entry[t], nodeId)
        THEN [m EXCEPT !.conn[c].listener = "closed",
                       !.conn[c].down = <<>>,
                       !.conn[c].up = Append(@, Closed)]
        ELSE [m EXCEPT !.entry[t] = mapSet(@, nodeId, c),
                       !.conn[c].listener = "connected",
                       !.conn[c].down = Tail(@),
                       !.conn[c].up = @ \o <<HandshakeAck(t),
                                            PeerList(sharePeerList(m.entry[t], nodeId))>>]

\* The dialler's handler of HANDSHAKE_ACK on connection c: the same two
\* rejections, else the peer is registered.
handleHandshakeAck(m, c) ==
    LET d == c[1]
        nodeId == Head(m.conn[c].up).nodeId
    IN  IF nodeId = d \/ nodeId \in DOMAIN m.entry[d]
        THEN [m EXCEPT !.conn[c].dialler = "closed",
                       !.conn[c].up = <<>>,
                       !.conn[c].down = Append(@, Closed)]
        ELSE [m EXCEPT !.entry[d] = mapSet(@, nodeId, c),
                       !.conn[c].dialler = "connected",
                       !.conn[c].up = Tail(@)]

\* The close event of connection c at the dialler and at the listener: the
\* peer registered on that connection leaves the peer map.
onCloseAtDialler(m, c) ==
    [m EXCEPT !.conn[c].dialler = "closed", !.conn[c].up = <<>>,
              !.entry[c[1]] = withoutConn(@, c)]

onCloseAtListener(m, c) ==
    [m EXCEPT !.conn[c].listener = "closed", !.conn[c].down = <<>>,
              !.entry[c[2]] = withoutConn(@, c)]

(***************************************************************************)
(* Initial state: three fresh nodes, all followers of term 0 with an       *)
(* empty log, an empty world state and the genesis tip, fully meshed.      *)
(***************************************************************************)
InitNode ==
    [currentTerm |-> 0, votedFor |-> Nil, log |-> <<>>, role |-> Follower,
     leaderId |-> Nil, commitIndex |-> 0, lastApplied |-> 0,
     nextIndex |-> EmptyMap, matchIndex |-> EmptyMap, votes |-> {},
     electionTimer |-> TRUE, heartbeatTimer |-> FALSE,
     chain |-> <<>>, blocks |-> <<>>, worldState |-> EmptyWorld,
     txPool |-> <<>>, nonces |-> [s \in Senders |-> NoNonce],
     committed |-> <<>>]

Init ==
    /\ node = [n \in Nodes |-> InitNode]
    /\ peers = [n \in Nodes |-> Nodes \ {n}]
    /\ alive = [n \in Nodes |-> TRUE]
    /\ chan = [pr \in Pairs |-> <<>>]
    /\ faults = 0
    /\ beats = 0
    /\ receipts = [t \in TxUniverse |-> "none"]
    /\ ret = NoCall
    /\ mesh = NoMesh

(***************************************************************************)
(* Actions: timers.                                                        *)
(***************************************************************************)
\* The election timer of n fires.
ElectionTimeout(n) ==
    /\ alive[n] /\ node[n].electionTimer /\ node[n].role # Leader
    /\ LET res == startElection(node[n], n, getKnownNodeIds(n))
       IN  /\ node' = [node EXCEPT ![n] = res.node]
           /\ chan' = deliver(chan, res.out)
    /\ UNCHANGED <<peers, alive, faults, beats, receipts, mesh, ret>>

\* The heartbeat timer of leader n fires: AppendEntries to every peer.
Heartbeats(n) ==
    /\ alive[n] /\ node[n].heartbeatTimer /\ node[n].role = Leader
    /\ chan' = deliver(chan, sendHeartbeats(node[n], n, getKnownNodeIds(n)))
    /\ chan' # chan
    /\ UNCHANGED <<node, peers, alive, faults, receipts, mesh, ret>>

\* The same, counted in beats.
HeartbeatTimeout(n) == Heartbeats(n) /\ beats' = beats + 1

\* The block timer of leader n fires: the pending transactions are applied
\* to the world state, the state root is computed from it, the block is
\* built, signed and proposed to Raft.
BlockTimer(n) ==
    /\ alive[n] /\ node[n].role = Leader
    /\ LET r == node[n]
           pending == getPending(r.txPool, maxTxPerBlock)
           r1 == [r EXCEPT !.worldState = applyTransactions(r.worldState, pending)]
           stateRoot == computeStateRoot(r1.worldState)
           block == proposeSignedBlock(r.chain, pending, n, stateRoot)
           res == proposeBlock(r1, n, block, getKnownNodeIds(n))
       IN  /\ pending # <<>>
           /\ node' = [node EXCEPT ![n] = res.node]
           /\ chan' = deliver(chan, res.out)
    /\ UNCHANGED <<peers, alive, faults, beats, receipts, mesh, ret>>

(***************************************************************************)
(* Actions: the client.                                                    *)
(***************************************************************************)
\* A client submits tx to node n: validated, pooled, broadcast to the
\* peers and, on a non-leader, forwarded to the leader.
Submit(n, tx) ==
    /\ alive[n] /\ receipts[tx] = "none"
    /\ IF acceptsTx(node[n], tx)
       THEN /\ node' = [node EXCEPT ![n] = intake(node[n], tx)]
            /\ receipts' = [receipts EXCEPT ![tx] = "pending"]
            /\ LET bcast == {[mtype |-> "TxBroadcast", from |-> n, to |-> p, tx |-> tx] :
                               p \in getKnownNodeIds(n)}
                   fwd == IF node[n].role # Leader THEN forwardToLeader(node[n], n, tx)
                          ELSE {}
               IN  chan' = deliver(deliver(chan, bcast), fwd)
       ELSE /\ receipts' = [receipts EXCEPT ![tx] = "rejected"]
            /\ UNCHANGED <<node, chan>>
    /\ UNCHANGED <<peers, alive, faults, beats, mesh, ret>>

(***************************************************************************)
(* Actions: message handlers.  b handles the oldest message from a.        *)
(***************************************************************************)
headIs(a, b, mtype) ==
    /\ alive[b] /\ chan[<<a, b>>] # <<>>
    /\ Head(chan[<<a, b>>]).mtype = mtype

handled(a, b, res) ==
    /\ node' = [node EXCEPT ![b] = res.node]
    /\ chan' = deliver(pop(chan, a, b), res.out)
    /\ UNCHANGED <<peers, alive, faults, beats, receipts, mesh, ret>>

HandleRequestVote(a, b) ==
    /\ headIs(a, b, "RequestVote")
    /\ handled(a, b, handleRequestVote(node[b], b, Head(chan[<<a, b>>])))

HandleRequestVoteReply(a, b) ==
    /\ headIs(a, b, "RequestVoteReply")
    /\ handled(a, b, handleRequestVoteReply(node[b], b, Head(chan[<<a, b>>]),
                                            getKnownNodeIds(b)))

HandleAppendEntries(a, b) ==
    /\ headIs(a, b, "AppendEntries")
    /\ handled(a, b, handleAppendEntries(node[b], b, Head(chan[<<a, b>>])))

HandleAppendEntriesReply(a, b) ==
    /\ headIs(a, b, "AppendEntriesReply")
    /\ handled(a, b, handleAppendEntriesReply(node[b], b, Head(chan[<<a, b>>]),
                                              getKnownNodeIds(b)))

HandleTxBroadcast(a, b) ==
    /\ headIs(a, b, "TxBroadcast")
    /\ handled(a, b, [node |-> intake(node[b], Head(chan[<<a, b>>]).tx), out |-> {}])

HandleTxForward(a, b) ==
    /\ headIs(a, b, "TxForward")
    /\ handled(a, b, [node |-> intake(node[b], Head(chan[<<a, b>>]).tx), out |-> {}])

(***************************************************************************)
(* Actions: failures and the peer map.                                     *)
(***************************************************************************)
\* The process of n stops; its connections close.
Crash(n) ==
    /\ alive[n]
    /\ alive' = [alive EXCEPT ![n] = FALSE]
    /\ peers' = [peers EXCEPT ![n] = {}]
    /\ chan' = [pr \in Pairs |-> IF n \in {pr[1], pr[2]} THEN <<>> ELSE chan[pr]]
    /\ faults' = faults + 1
    /\ UNCHANGED <<node, beats, receipts, mesh, ret>>

\* The connection between a and b fails; a is the first to notice and
\* its onPeerDisconnected handler removes b from its peer map.
ConnectionLost(a, b) ==
    /\ connected(a, b)
    /\ peers' = [peers EXCEPT ![a] = peers[a] \ {b}]
    /\ chan' = closeConnection(chan, a, b)
    /\ faults' = faults + 1
    /\ UNCHANGED <<node, alive, beats, receipts, mesh, ret>>

\* onPeerDisconnected: a learns that its connection to b is closed and
\* removes b from its peer map.
OnPeerDisconnected(a, b) ==
    /\ alive[a] /\ b \in peers[a] /\ ~connected(a, b)
    /\ peers' = [peers EXCEPT ![a] = peers[a] \ {b}]
    /\ UNCHANGED <<node, alive, chan, faults, beats, receipts, mesh, ret>>

\* a connects to b and the handshake succeeds: each adds the other to its
\* peer map (a node already in the map is rejected as a duplicate).
Connect(a, b) ==
    /\ alive[a] /\ alive[b] /\ a # b
    /\ b \notin peers[a] /\ a \notin peers[b]
    /\ peers' = [peers EXCEPT ![a] = peers[a] \cup {b}, ![b] = peers[b] \cup {a}]
    /\ chan' = closeConnection(chan, a, b)
    /\ UNCHANGED <<node, alive, faults, beats, receipts, mesh, ret>>

(***************************************************************************)
(* Actions: block synchronisation.                                         *)
(***************************************************************************)
SYNC_BATCH_SIZE == 50

\* The connected peers of a with the highest chain above a's own.
bestPeers(a) ==
    {p \in Nodes \ {a} :
        /\ connected(a, p)
        /\ getHeight(node[p].chain) > getHeight(node[a].chain)
        /\ \A q \in Nodes \ {a} :
              connected(a, q) => getHeight(node[q].chain) <= getHeight(node[p].chain)}

\* requestBlocks: the blocks of the peer's blocks table with heights from..to.
requestBlocks(p, from, to) ==
    SelectSeq(node[p].blocks, LAMBDA b : b.height >= from /\ b.height <= to)

\* for (const block of blocks) applyBlock(block): a block that throws (the
\* injected storage fault hits the first block) ends the run.
RECURSIVE applyBlocks(_, _, _)
applyBlocks(r, blocks, fault) ==
    IF blocks = <<>> THEN r
    ELSE LET r1 == applyBlock(r, Head(blocks), fault)
         IN  IF fault # "none" \/ r1.blocks = r.blocks THEN r1
             ELSE applyBlocks(r1, Tail(blocks), "none")

\* syncFromPeers on a, which picked p as its best peer; fault is the step
\* at which the storage engine throws during the run, if any.
SyncFromPeers(a, p, fault) ==
    /\ alive[a] /\ p \in bestPeers(a)
    /\ LET from == getHeight(node[a].chain) + 1
           to == Min(from + SYNC_BATCH_SIZE - 1, getHeight(node[p].chain))
       IN  node' = [node EXCEPT ![a] =
                       applyBlocks(node[a], requestBlocks(p, from, to), fault)]
    /\ faults' = faults + (IF fault = "none" THEN 0 ELSE 1)
    /\ UNCHANGED <<peers, alive, chan, beats, receipts, mesh, ret>>

\* What a tampering peer does to a block it serves: it changes the state
\* root and leaves the hash field as it was ("hash"), or replaces the
\* signature by one made with its own key ("signature").  Height and
\* previousHash stay, so the block still links to the tip.
Forgeries == {"hash", "signature"}
Intruder == "intruder"

forgeBlock(block, forge) ==
    IF forge = "hash" THEN [block EXCEPT !.stateRoot = "forged"]
    ELSE [block EXCEPT !.signature = sign(block.hash, Intruder)]

forgeBlocks(blocks, forge) == [i \in 1..Len(blocks) |-> forgeBlock(blocks[i], forge)]

\* syncFromPeers on a when the SYNC_RESPONSE of its best peer p carries
\* tampered blocks (the transport does not authenticate peers): every
\* received block goes to applyBlock as it is.
SyncFromForgingPeer(a, p, forge) ==
    /\ alive[a] /\ p \in bestPeers(a)
    /\ LET from == getHeight(node[a].chain) + 1
           to == Min(from + SYNC_BATCH_SIZE - 1, getHeight(node[p].chain))
       IN  node' = [node EXCEPT ![a] =
                       applyBlocks(node[a], forgeBlocks(requestBlocks(p, from, to), forge),
                                   "none")]
    /\ node' # node
    /\ faults' = faults + 1
    /\ UNCHANGED <<peers, alive, chan, beats, receipts, mesh, ret>>

\* A batch loop that never sees an applyBlock throw.
threw_Swallowed(r, r1, blocks) == FALSE

\* An applyBlock of the batch threw: fewer blocks were stored than the
\* batch holds.  The for loop of syncFromPeers has no handler, so the throw
\* ends the run.
threw(r, r1, blocks) == Len(r1.blocks) - Len(r.blocks) < Len(blocks)

\* The while loop of syncFromPeers on node r against peer p, which
\* advertised bestHeight; batches counts the batch requests still allowed
\* before the run is reported as still running.
RECURSIVE syncLoop(_, _, _, _)
syncLoop(r, p, bestHeight, batches) ==
    LET from == getHeight(r.chain) + 1
        to == Min(from + SYNC_BATCH_SIZE - 1, bestHeight)
        blocks == requestBlocks(p, from, to)
        r1 == applyBlocks(r, blocks, "none")
    IN  IF getHeight(r.chain) >= bestHeight THEN [node |-> r, outcome |-> "caught up"]
        ELSE IF batches = 0 THEN [node |-> r, outcome |-> "running"]
        ELSE IF blocks = <<>> THEN [node |-> r, outcome |-> "empty batch"]
        ELSE IF threw(r, r1, blocks) THEN [node |-> r1, outcome |-> "threw"]
        ELSE syncLoop(r1, p, bestHeight, batches - 1)

\* The run of syncFromPeers on a against its best peer p.
syncRun(a, p) ==
    syncLoop(node[a], p, getHeight(node[p].chain), getHeight(node[p].chain) + 1)

\* A whole run of syncFromPeers on a, batch after batch.
SyncRun(a, p) ==
    /\ alive[a] /\ p \in bestPeers(a)
    /\ node' = [node EXCEPT ![a] = syncRun(a, p).node]
    /\ UNCHANGED <<peers, alive, chan, faults, beats, receipts, mesh, ret>>

(***************************************************************************)
(* The bounded cluster.  Timers fire only below the term, log and          *)
(* heartbeat bounds, election timers only on the nodes of Electable;       *)
(* crashes hit the nodes of Crashable and connection failures the          *)
(* connections of Lossy (the cluster is symmetric in its nodes, so a fault *)
(* at one node stands for the same fault at any other).                    *)
(***************************************************************************)
Electable == {"n1", "n2"}
Crashable == {"n3"}
Lossy == {<<"n1", "n2">>, <<"n1", "n3">>}

Next ==
    \/ \E n \in Electable : /\ node[n].currentTerm < MaxTerm
                             /\ ElectionTimeout(n) /\ withinNetworkBound(MaxInFlight)
    \/ \E n \in Nodes : /\ beats < MaxHeartbeats
                         /\ HeartbeatTimeout(n) /\ withinNetworkBound(MaxInFlight)
    \/ \E n \in Nodes : /\ Len(node[n].log) < MaxLogLen
                         /\ BlockTimer(n) /\ withinNetworkBound(MaxInFlight)
    \/ \E n \in Nodes, tx \in TxUniverse :
          Submit(n, tx) /\ withinNetworkBound(MaxInFlight)
    \/ \E pr \in Pairs :
          HandleRequestVote(pr[1], pr[2]) /\ withinNetworkBound(MaxInFlight)
    \/ \E pr \in Pairs :
          HandleRequestVoteReply(pr[1], pr[2]) /\ withinNetworkBound(MaxInFlight)
    \/ \E pr \in Pairs :
          HandleAppendEntries(pr[1], pr[2]) /\ withinNetworkBound(MaxInFlight)
    \/ \E pr \in Pairs :
          HandleAppendEntriesReply(pr[1], pr[2]) /\ withinNetworkBound(MaxInFlight)
    \/ \E pr \in Pairs : HandleTxBroadcast(pr[1], pr[2])
    \/ \E pr \in Pairs : HandleTxForward(pr[1], pr[2])

Spec == Init /\ [][Next]_vars

(***************************************************************************)
(* The cluster under failures: a node crashes for good, connections close, *)
(* each end notices on its own and drops the other from its peer map.      *)
(* One transaction, one log entry per node.                                *)
(***************************************************************************)
NextFaults ==
    \/ \E n \in Electable : /\ node[n].currentTerm < FMaxTerm
                             /\ ElectionTimeout(n) /\ withinNetworkBound(MaxInFlight)
    \/ \E n \in Nodes : /\ Len(node[n].log) < FMaxLogLen
                         /\ BlockTimer(n) /\ withinNetworkBound(MaxInFlight)
    \/ \E n \in Nodes : Submit(n, TxA) /\ withinNetworkBound(MaxInFlight)
    \/ \E pr \in Pairs :
          HandleRequestVote(pr[1], pr[2]) /\ withinNetworkBound(MaxInFlight)
    \/ \E pr \in Pairs :
          HandleRequestVoteReply(pr[1], pr[2]) /\ withinNetworkBound(MaxInFlight)
    \/ \E pr \in Pairs :
          HandleAppendEntries(pr[1], pr[2]) /\ withinNetworkBound(MaxInFlight)
    \/ \E pr \in Pairs :
          HandleAppendEntriesReply(pr[1], pr[2]) /\ withinNetworkBound(MaxInFlight)
    \/ \E pr \in Pairs : HandleTxBroadcast(pr[1], pr[2])
    \/ \E pr \in Pairs : HandleTxForward(pr[1], pr[2])
    \/ \E n \in Crashable : faults < FMaxFaults /\ Crash(n)
    \/ \E pr \in Lossy : faults < FMaxFaults /\ ConnectionLost(pr[1], pr[2])
    \/ \E pr \in Pairs : OnPeerDisconnected(pr[1], pr[2])

SpecFaults == Init /\ [][NextFaults]_vars

(***************************************************************************)
(* The cluster with block synchronisation: one transaction, a network that *)
(* holds enough messages for a leader's block timer to fire again before   *)
(* its proposal commits, and nodes that catch up from a peer.              *)
(***************************************************************************)
NextSync ==
    \/ \E n \in Electable : /\ node[n].currentTerm < SMaxTerm
                             /\ ElectionTimeout(n) /\ withinNetworkBound(SMaxInFlight)
    \/ \E n \in Nodes : /\ Len(node[n].log) < SMaxLogLen
                         /\ BlockTimer(n) /\ withinNetworkBound(SMaxInFlight)
    \/ \E n \in Nodes : Submit(n, TxA) /\ withinNetworkBound(SMaxInFlight)
    \/ \E pr \in Pairs :
          HandleRequestVote(pr[1], pr[2]) /\ withinNetworkBound(SMaxInFlight)
    \/ \E pr \in Pairs :
          HandleRequestVoteReply(pr[1], pr[2]) /\ withinNetworkBound(SMaxInFlight)
    \/ \E pr \in Pairs :
          HandleAppendEntries(pr[1], pr[2]) /\ withinNetworkBound(SMaxInFlight)
    \/ \E pr \in Pairs :
          HandleAppendEntriesReply(pr[1], pr[2]) /\ withinNetworkBound(SMaxInFlight)
    \/ \E pr \in Pairs : HandleTxBroadcast(pr[1], pr[2])
    \/ \E pr \in Pairs : HandleTxForward(pr[1], pr[2])
    \/ \E pr \in Pairs : SyncFromPeers(pr[1], pr[2], "none")

SpecSync == Init /\ [][NextSync]_vars

(***************************************************************************)
(* The same cluster with a storage engine that may throw while a node      *)
(* applies the blocks of a synchronisation run.                            *)
(***************************************************************************)
NextStore ==
    \/ NextSync
    \/ \E pr \in Pairs, fault \in StorageFaults \ {"none"} :
          faults < SMaxFaults /\ SyncFromPeers(pr[1], pr[2], fault)

SpecStore == Init /\ [][NextStore]_vars

(***************************************************************************)
(* Failover: three nodes start, Starter is the node whose election timer   *)
(* expires first, and once it leads the cluster its process is killed.     *)
(* The election timer of a node expires only while no leader of its term   *)
(* or a later one reaches it with heartbeats, and a heartbeat is answered  *)
(* before the next one is due.  With inTime, a vote that is under way is   *)
(* also decided before an election timer expires (messages travel much     *)
(* faster than the 150-300 ms of the timer).  Every timer of a running     *)
(* node keeps firing and every connection keeps delivering (weak           *)
(* fairness).                                                              *)
(***************************************************************************)
Starter == "n1"

hearsLeader(n) ==
    \E l \in Nodes \ {n} :
        /\ connected(n, l) /\ node[l].role = Leader
        /\ node[l].currentTerm >= node[n].currentTerm

\* No message to or from n is on its way.
quiet(n) ==
    \A m \in Nodes \ {n} : chan[<<n, m>>] = <<>> /\ chan[<<m, n>>] = <<>>

FoElection(n, maxTerm, inTime) ==
    /\ node[n].currentTerm < maxTerm
    /\ n = Starter \/ ~alive[Starter]
    /\ ~hearsLeader(n)
    /\ inTime => quiet(n)
    /\ ElectionTimeout(n) /\ withinNetworkBound(LMaxInFlight)

\* The round trip of a heartbeat ends before the next heartbeat is due.
FoHeartbeat(n) ==
    /\ quiet(n)
    /\ Heartbeats(n) /\ beats' = beats /\ withinNetworkBound(LMaxInFlight)

FoBlockTimer(n, limit) ==
    /\ Len(node[n].log) < limit
    /\ BlockTimer(n) /\ withinNetworkBound(LMaxInFlight)

\* The client submits the transaction once a new leader is elected.
FoSubmit(n) ==
    /\ ~alive[Starter] /\ \E l \in Nodes : alive[l] /\ node[l].role = Leader
    /\ Submit(n, TxA) /\ withinNetworkBound(LMaxInFlight)

FoDeliver(a, b) ==
    /\ \/ HandleRequestVote(a, b)
       \/ HandleRequestVoteReply(a, b)
       \/ HandleAppendEntries(a, b)
       \/ HandleAppendEntriesReply(a, b)
       \/ HandleTxBroadcast(a, b)
       \/ HandleTxForward(a, b)
    /\ withinNetworkBound(LMaxInFlight)

FoCrash == node[Starter].role = Leader /\ Crash(Starter)

\* A step of the scenario with the terms bounded by maxTerm and the logs by
\* maxLog.
FailoverStep(maxTerm, maxLog, inTime) ==
    \/ \E n \in Nodes : FoElection(n, maxTerm, inTime)
    \/ \E n \in Nodes : FoHeartbeat(n)
    \/ \E n \in Nodes : FoBlockTimer(n, maxLog)
    \/ \E n \in Nodes : FoSubmit(n)
    \/ \E pr \in Pairs : FoDeliver(pr[1], pr[2])
    \/ FoCrash
    \/ \E pr \in Pairs : OnPeerDisconnected(pr[1], pr[2])

FailoverFairness(maxTerm, maxLog, inTime) ==
    /\ \A n \in Nodes : WF_vars(FoElection(n, maxTerm, inTime))
    /\ \A n \in Nodes : WF_vars(FoHeartbeat(n))
    /\ \A n \in Nodes : WF_vars(FoBlockTimer(n, maxLog))
    /\ \A pr \in Pairs : WF_vars(FoDeliver(pr[1], pr[2]))

NextFailover == FailoverStep(LMaxTerm, LMaxLogLen, TRUE)

SpecFailover ==
    Init /\ [][NextFailover]_vars /\ FailoverFairness(LMaxTerm, LMaxLogLen, TRUE)

(***************************************************************************)
(* The same scenario with election timers that may expire while a vote is  *)
(* under way, and with room for a second proposal of the new leader.       *)
(***************************************************************************)
NextOneFailure == FailoverStep(EMaxTerm, EMaxLogLen, FALSE)

SpecOneFailure ==
    Init /\ [][NextOneFailure]_vars /\ FailoverFairness(EMaxTerm, EMaxLogLen, FALSE)

(***************************************************************************)
(* Catching up: one leader, two transactions in two blocks, followers that *)
(* lag and fetch blocks from a peer, and a storage engine that may throw   *)
(* while a synchronisation run applies a block, so that a peer's blocks    *)
(* table can miss a height its chain has.                                  *)
(***************************************************************************)
Proposer == "n1"

NextCatchUp ==
    \/ /\ node[Proposer].currentTerm < CMaxTerm
       /\ ElectionTimeout(Proposer) /\ withinNetworkBound(CMaxInFlight)
    \/ /\ Len(node[Proposer].log) < CMaxLogLen
       /\ BlockTimer(Proposer) /\ withinNetworkBound(CMaxInFlight)
    \/ \E tx \in TxUniverse : Submit(Proposer, tx) /\ withinNetworkBound(CMaxInFlight)
    \/ \E pr \in Pairs :
          HandleRequestVote(pr[1], pr[2]) /\ withinNetworkBound(CMaxInFlight)
    \/ \E pr \in Pairs :
          HandleRequestVoteReply(pr[1], pr[2]) /\ withinNetworkBound(CMaxInFlight)
    \/ \E pr \in Pairs :
          HandleAppendEntries(pr[1], pr[2]) /\ withinNetworkBound(CMaxInFlight)
    \/ \E pr \in Pairs :
          HandleAppendEntriesReply(pr[1], pr[2]) /\ withinNetworkBound(CMaxInFlight)
    \/ \E pr \in Pairs : HandleTxBroadcast(pr[1], pr[2])
    \/ \E pr \in Pairs : SyncFromPeers(pr[1], pr[2], "none")
    \/ \E pr \in Pairs, fault \in StorageFaults \ {"none"} :
          faults < CMaxFaults /\ SyncFromPeers(pr[1], pr[2], fault)

SpecCatchUp == Init /\ [][NextCatchUp]_vars

(***************************************************************************)
(* Catching up from a peer that may serve tampered blocks.                 *)
(***************************************************************************)
NextForge ==
    \/ NextCatchUp
    \/ \E pr \in Pairs, forge \in Forgeries :
          faults < CMaxFaults /\ SyncFromForgingPeer(pr[1], pr[2], forge)

SpecForge == Init /\ [][NextForge]_vars

(***************************************************************************)
(* Staggered start: n1 and n2 are connected, Joiner runs on its own (the   *)
(* only voter it knows) and connects to the others later.                  *)
(***************************************************************************)
Joiner == "n3"

InitJoin ==
    /\ node = [n \in Nodes |-> InitNode]
    /\ peers = [n \in Nodes |-> IF n = Joiner THEN {} ELSE Nodes \ {n, Joiner}]
    /\ alive = [n \in Nodes |-> TRUE]
    /\ chan = [pr \in Pairs |-> <<>>]
    /\ faults = 0
    /\ beats = 0
    /\ receipts = [t \in TxUniverse |-> "none"]
    /\ ret = NoCall
    /\ mesh = NoMesh

NextJoin ==
    \/ \E n \in Nodes \ {"n2"} : /\ node[n].currentTerm < JMaxTerm
                                  /\ ElectionTimeout(n) /\ withinNetworkBound(JMaxInFlight)
    \/ \E n \in Nodes : /\ beats < JMaxHeartbeats
                         /\ HeartbeatTimeout(n) /\ withinNetworkBound(JMaxInFlight)
    \/ \E n \in Nodes : /\ Len(node[n].log) < JMaxLogLen
                         /\ BlockTimer(n) /\ withinNetworkBound(JMaxInFlight)
    \/ \E n \in Nodes : Submit(n, TxA) /\ withinNetworkBound(JMaxInFlight)
    \/ \E pr \in Pairs :
          HandleRequestVote(pr[1], pr[2]) /\ withinNetworkBound(JMaxInFlight)
    \/ \E pr \in Pairs :
          HandleRequestVoteReply(pr[1], pr[2]) /\ withinNetworkBound(JMaxInFlight)
    \/ \E pr \in Pairs :
          HandleAppendEntries(pr[1], pr[2]) /\ withinNetworkBound(JMaxInFlight)
    \/ \E pr \in Pairs :
          HandleAppendEntriesReply(pr[1], pr[2]) /\ withinNetworkBound(JMaxInFlight)
    \/ \E pr \in Pairs : HandleTxBroadcast(pr[1], pr[2])
    \/ \E pr \in Pairs : HandleTxForward(pr[1], pr[2])
    \/ \E n \in Nodes \ {Joiner} : Connect(Joiner, n)

SpecJoin == InitJoin /\ [][NextJoin]_vars

(***************************************************************************)
(* Single-node clusters: every node runs with an empty peer map, so each   *)
(* is the only voter of its own cluster.                                   *)
(***************************************************************************)
InitSolo ==
    /\ node = [n \in Nodes |-> InitNode]
    /\ peers = [n \in Nodes |-> {}]
    /\ alive = [n \in Nodes |-> TRUE]
    /\ chan = [pr \in Pairs |-> <<>>]
    /\ faults = 0
    /\ beats = 0
    /\ receipts = [t \in TxUniverse |-> "none"]
    /\ ret = NoCall
    /\ mesh = NoMesh

NextSolo ==
    \/ \E n \in Nodes : ElectionTimeout(n)
    \/ \E n \in Nodes : BlockTimer(n)
    \/ \E n \in Nodes, tx \in TxUniverse : Submit(n, tx)

SpecSolo == InitSolo /\ [][NextSolo]_vars

(***************************************************************************)
(* A fresh node catches up: Proposer starts alone, leads its one-node      *)
(* cluster and commits blocks; the other nodes start with the same genesis *)
(* and no blocks, connect to Proposer and fetch its blocks.                *)
(***************************************************************************)
Fresh == Nodes \ {Proposer}

NextFresh ==
    \/ /\ node[Proposer].currentTerm < YMaxTerm
       /\ ElectionTimeout(Proposer) /\ withinNetworkBound(YMaxInFlight)
    \/ /\ beats < YMaxHeartbeats
       /\ HeartbeatTimeout(Proposer) /\ withinNetworkBound(YMaxInFlight)
    \/ /\ Len(node[Proposer].log) < YMaxLogLen
       /\ BlockTimer(Proposer) /\ withinNetworkBound(YMaxInFlight)
    \/ \E tx \in TxUniverse : Submit(Proposer, tx) /\ withinNetworkBound(YMaxInFlight)
    \/ \E pr \in Pairs :
          HandleAppendEntries(pr[1], pr[2]) /\ withinNetworkBound(YMaxInFlight)
    \/ \E pr \in Pairs :
          HandleAppendEntriesReply(pr[1], pr[2]) /\ withinNetworkBound(YMaxInFlight)
    \/ \E pr \in Pairs : HandleTxBroadcast(pr[1], pr[2])
    \/ \E n \in Fresh : node[Proposer].role = Leader /\ Connect(n, Proposer)
    \/ \E n \in Fresh : SyncFromPeers(n, Proposer, "none")

SpecFresh == InitSolo /\ [][NextFresh]_vars

(***************************************************************************)
(* Catching up with whole synchronisation runs.                            *)
(***************************************************************************)
NextSyncRun ==
    \/ NextCatchUp
    \/ \E pr \in Pairs : SyncRun(pr[1], pr[2])

SpecSyncRun == Init /\ [][NextSyncRun]_vars

(***************************************************************************)
(* Bootstrap: the nodes start without connections, each with the seed      *)
(* addresses of its configuration (network.peers), and connect handshake   *)
(* by handshake.                                                           *)
(***************************************************************************)
SeedConfigs ==
    {[n \in Nodes |-> {pr[2] : pr \in {x \in dials : x[1] = n}}] :
        dials \in {ds \in SUBSET (Nodes \X Nodes) : Cardinality(ds) <= MaxSeeds}}

InitMesh ==
    /\ node = [n \in Nodes |-> InitNode]
    /\ peers = [n \in Nodes |-> {}]
    /\ alive = [n \in Nodes |-> TRUE]
    /\ chan = [pr \in Pairs |-> <<>>]
    /\ faults = 0
    /\ beats = 0
    /\ receipts = [t \in TxUniverse |-> "none"]
    /\ ret = NoCall
    /\ mesh \in {[NoMesh EXCEPT !.toDial = cfg, !.seeds = cfg] : cfg \in SeedConfigs}

\* A step of the peer managers: the peer map of a node holds the node ids
\* of its entries.
meshStep(m) ==
    /\ mesh' = m
    /\ peers' = [n \in Nodes |-> DOMAIN m.entry[n]]
    /\ UNCHANGED <<node, alive, chan, faults, beats, receipts, ret>>

headOf(q, type) == q # <<>> /\ Head(q).type = type

\* Startup: d connects to one of its configured addresses.
DialSeed(d, t) ==
    /\ t \in mesh.toDial[d]
    /\ meshStep(connectTo([mesh EXCEPT !.toDial[d] = @ \ {t}], d, t))

HandleHandshake(c) ==
    /\ mesh.conn[c].listener = "connecting"
    /\ headOf(mesh.conn[c].down, "HANDSHAKE")
    /\ meshStep(handleHandshake(mesh, c))

HandleHandshakeAck(c) ==
    /\ mesh.conn[c].dialler = "connecting"
    /\ headOf(mesh.conn[c].up, "HANDSHAKE_ACK")
    /\ meshStep(handleHandshakeAck(mesh, c))

HandlePeerList(c) ==
    /\ mesh.conn[c].dialler = "connected"
    /\ headOf(mesh.conn[c].up, "PEER_LIST")
    /\ meshStep(connectToAll([mesh EXCEPT !.conn[c].up = Tail(@)], c[1],
                    handlePeerList(c[1], DOMAIN mesh.entry[c[1]],
                                   Head(mesh.conn[c].up).peers)))

CloseAtDialler(c) ==
    /\ mesh.conn[c].dialler \in {"connecting", "connected"}
    /\ headOf(mesh.conn[c].up, "CLOSE")
    /\ meshStep(onCloseAtDialler(mesh, c))

CloseAtListener(c) ==
    /\ mesh.conn[c].listener \in {"connecting", "connected"}
    /\ headOf(mesh.conn[c].down, "CLOSE")
    /\ meshStep(onCloseAtListener(mesh, c))

NextMesh ==
    \/ \E d, t \in Nodes : DialSeed(d, t)
    \/ \E c \in Conns : HandleHandshake(c)
    \/ \E c \in Conns : HandleHandshakeAck(c)
    \/ \E c \in Conns : HandlePeerList(c)
    \/ \E c \in Conns : CloseAtDialler(c)
    \/ \E c \in Conns : CloseAtListener(c)

SpecMesh == InitMesh /\ [][NextMesh]_vars

(***************************************************************************)
(* The StateStore on its own: the store of one node, written by set and    *)
(* delete and read by computeStateRoot.                                    *)
(***************************************************************************)
Values == {"1", "2", "3"}

returned(method, n, value) == [method |-> method, node |-> n, value |-> value]

StateSet(n, key, value) ==
    /\ node[n].worldState[key].version < MaxVersion
    /\ node' = [node EXCEPT ![n].worldState = stateSet(@, key, value)]
    /\ ret' = returned("set", n, Nil)
    /\ UNCHANGED <<peers, alive, chan, faults, beats, receipts, mesh>>

StateDelete(n, key) ==
    /\ hasRow(node[n].worldState, key)
    /\ node' = [node EXCEPT ![n].worldState = stateDelete(@, key)]
    /\ ret' = returned("delete", n, Nil)
    /\ UNCHANGED <<peers, alive, chan, faults, beats, receipts, mesh>>

\* computeStateRoot reads the world_state table (a SELECT) and returns
\* the root.
ComputeStateRoot(n) ==
    /\ ret' = returned("computeStateRoot", n, computeStateRoot(node[n].worldState))
    /\ UNCHANGED <<node, peers, alive, chan, faults, beats, receipts, mesh>>

NextStateStore ==
    \/ \E k \in Keys, v \in Values : StateSet(Proposer, k, v)
    \/ \E k \in Keys : StateDelete(Proposer, k)
    \/ ComputeStateRoot(Proposer)

SpecStateStore == InitSolo /\ [][NextStateStore]_vars

(***************************************************************************)
(* StateStore.query.  An SQL text is modelled by what the method looks at: *)
(* leading white space, the first word as written, and whether a second    *)
(* statement follows the first.                                            *)
(***************************************************************************)
SqlWords == {"SELECT", "select", "INSERT", "UPDATE", "DELETE", "delete", "DROP"}
SqlTexts == [blank : BOOLEAN, first : SqlWords, more : BOOLEAN]

toUpperCase(w) == CASE w = "select" -> "SELECT" [] w = "delete" -> "DELETE" [] OTHER -> w

\* sql.trim().toUpperCase()
trimUpper(sql) == [blank |-> FALSE, first |-> toUpperCase(sql.first), more |-> sql.more]

startsWith(text, word) == ~text.blank /\ text.first = word

OnlySelect == "Only SELECT queries are allowed"

\* A query method without the test of the first word.
rejectsSql_Nothing(sql) == FALSE

\* if (!trimmed.startsWith("SELECT")) throw
rejectsSql(sql) == ~startsWith(trimUpper(sql), "SELECT")

\* this.db.prepare(sql).all(...params): the statement is compiled and run
\* against the database of the node; a text of more than one statement
\* does not compile.  A SELECT returns rows; the other statements write.
prepareAll(r, sql) ==
    LET verb == toUpperCase(sql.first)
    IN  IF sql.more THEN [node |-> r, error |-> "not one statement", rows |-> EmptyWorld]
        ELSE IF verb = "SELECT" THEN [node |-> r, error |-> Nil, rows |-> r.worldState]
        ELSE [node |-> CASE verb = "INSERT" ->
                                [r EXCEPT !.worldState = stateSet(@, KeyOrder[Len(KeyOrder)], "1")]
                         [] verb = "UPDATE" ->
                                [r EXCEPT !.nonces = [s \in Senders |-> NoNonce]]
                         [] verb = "DELETE" ->
                                [r EXCEPT !.txPool = <<>>, !.worldState = EmptyWorld]
                         [] OTHER -> [r EXCEPT !.blocks = <<>>],
              error |-> Nil, rows |-> EmptyWorld]

query(r, sql) ==
    IF rejectsSql(sql) THEN [node |-> r, error |-> OnlySelect, rows |-> EmptyWorld]
    ELSE prepareAll(r, sql)

Query(n, sql) ==
    /\ alive[n]
    /\ LET res == query(node[n], sql)
       IN  /\ node' = [node EXCEPT ![n] = res.node]
           /\ ret' = returned("query", n, [sql |-> sql, error |-> res.error, rows |-> res.rows])
    /\ UNCHANGED <<peers, alive, chan, faults, beats, receipts, mesh>>

NextQuery ==
    \/ ElectionTimeout(Proposer)
    \/ BlockTimer(Proposer)
    \/ \E tx \in TxUniverse : Submit(Proposer, tx)
    \/ \E sql \in SqlTexts : Query(Proposer, sql)

SpecQuery == InitSolo /\ [][NextQuery]_vars

\* A node that led on its own joins a cluster that elected its own leader,
\* each side having received a transaction of its own before the connection.
NextLateJoin ==
    \/ \E n \in {"n1", Joiner} : /\ node[n].currentTerm < JMaxTerm
                                  /\ ElectionTimeout(n) /\ withinNetworkBound(JMaxInFlight)
    \/ \E n \in {"n1", Joiner} : /\ Len(node[n].log) < JMaxLogLen
                                  /\ BlockTimer(n) /\ withinNetworkBound(JMaxInFlight)
    \/ \E n \in {"n1", Joiner}, tx \in TxUniverse :
          Submit(n, tx) /\ withinNetworkBound(JMaxInFlight)
    \/ \E pr \in Pairs :
          HandleRequestVote(pr[1], pr[2]) /\ withinNetworkBound(JMaxInFlight)
    \/ \E pr \in Pairs :
          HandleRequestVoteReply(pr[1], pr[2]) /\ withinNetworkBound(JMaxInFlight)
    \/ \E pr \in Pairs :
          HandleAppendEntries(pr[1], pr[2]) /\ withinNetworkBound(JMaxInFlight)
    \/ \E pr \in Pairs :
          HandleAppendEntriesReply(pr[1], pr[2]) /\ withinNetworkBound(JMaxInFlight)
    \/ \E pr \in Pairs : HandleTxBroadcast(pr[1], pr[2])
    \/ Connect(Joiner, "n1")

SpecLateJoin == InitJoin /\ [][NextLateJoin]_vars


(***************************************************************************)
(* Two stores written independently, each read by computeStateRoot.        *)
(***************************************************************************)
NextStateRoot ==
    \/ \E n \in {"n1", "n2"}, k \in Keys : StateSet(n, k, "1")
    \/ \E n \in {"n1", "n2"} : ComputeStateRoot(n)

SpecStateRoot == InitSolo /\ [][NextStateRoot]_vars


(***************************************************************************)
(* Solo mode: no Raft, no peers; the node produces a block from its        *)
(* pending transactions whenever its block timer fires:                    *)
(*     const pending = txStore.getPending(maxTxPerBlock)                   *)
(*     if (pending.length === 0) return                                    *)
(*     for tx of pending: applyTransaction(tx, height + 1)                 *)
(*     block = chain.proposeBlock(pending, publicKey, computeStateRoot())  *)
(*     chain.appendBlock; blockStore.insert; txStore.removePending         *)
(***************************************************************************)
soloProduceBlock(r, self) ==
    LET pending == getPending(r.txPool, maxTxPerBlock)
        ws == applyTransactions(r.worldState, pending)
        block == proposeSignedBlock(r.chain, pending, self, computeStateRoot(ws))
    IN  IF pending = <<>> THEN r
        ELSE [r EXCEPT !.worldState = ws,
                       !.chain = Append(r.chain, block),
                       !.blocks = Append(r.blocks, block),
                       !.txPool = removePending(r.txPool, poolHashes(pending))]

SoloBlockTimer(n) ==
    /\ alive[n] /\ node[n].txPool # <<>>
    /\ node' = [node EXCEPT ![n] = soloProduceBlock(node[n], n)]
    /\ UNCHANGED <<peers, alive, chan, faults, beats, receipts, mesh, ret>>

\* TxStore.getNextNonce(sender), called on node n.
GetNextNonce(n, sender) ==
    /\ ret' = returned("getNextNonce", n, getNextNonce(node[n].nonces, sender))
    /\ UNCHANGED <<node, peers, alive, chan, faults, beats, receipts, mesh>>

NextSoloMode ==
    \/ \E n \in Nodes : SoloBlockTimer(n)
    \/ \E n \in Nodes, tx \in TxUniverse : Submit(n, tx)
    \/ \E n \in Nodes, s \in Senders : GetNextNonce(n, s)

SpecSoloMode == InitSolo /\ [][NextSoloMode]_vars

(***************************************************************************)
(* Health checks and the sync triggers: a node that joins a running        *)
(* cluster, the ping/pong exchange of chain heights, and the two           *)
(* situations that start syncFromPeers.                                    *)
(***************************************************************************)
\* BlockSync.syncFromPeers on node a: the scan of the connected peers
\* (known) for the highest recorded chainHeight above the local height,
\* then the batch loop against that peer.
syncFromPeers(a, known, heights) ==
    LET ahead == {p \in known : heights[p] > getHeight(node[a].chain)}
        best == {p \in ahead : \A q \in ahead : heights[q] <= heights[p]}
    IN  IF best = {} THEN [node |-> node[a], outcome |-> "no peer"]
        ELSE LET p == CHOOSE x \in best : TRUE
             IN  syncLoop(node[a], p, heights[p], heights[p] + 1)

\* The handshake between a and b succeeds: each registers the other with
\* the chainHeight of the HANDSHAKE / HANDSHAKE_ACK payload, and the
\* peer:connected event makes the orchestrator of each start sync.
PeerConnected(a, b) ==
    /\ alive[a] /\ alive[b] /\ a # b
    /\ b \notin peers[a] /\ a \notin peers[b]
    /\ peers' = [peers EXCEPT ![a] = peers[a] \cup {b}, ![b] = peers[b] \cup {a}]
    /\ chan' = closeConnection(chan, a, b)
    /\ LET hs == [mesh.chainHeight EXCEPT ![a][b] = getHeight(node[b].chain),
                                          ![b][a] = getHeight(node[a].chain)]
           runA == syncFromPeers(a, {p \in peers'[a] : alive[p] /\ a \in peers'[p]}, hs[a])
           runB == syncFromPeers(b, {p \in peers'[b] : alive[p] /\ b \in peers'[p]}, hs[b])
       IN  /\ mesh' = [mesh EXCEPT !.chainHeight = hs]
           /\ node' = [node EXCEPT ![a] = runA.node, ![b] = runB.node]
           /\ ret' = IF runB.outcome # "no peer"
                     THEN returned("syncFromPeers", b, runB.outcome)
                     ELSE returned("syncFromPeers", a, runA.outcome)
    /\ UNCHANGED <<alive, faults, beats, receipts>>

\* The health timer of n fires: pingAll sends a PING with the chain height
\* of n to every peer of the map.
PingAll(n) ==
    /\ alive[n] /\ \E p \in peers[n] : connected(n, p)
    /\ chan' = deliver(chan, {[mtype |-> "Ping", from |-> n, to |-> p,
                               chainHeight |-> getHeight(node[n].chain)] :
                                  p \in peers[n]})
    /\ beats' = beats + 1
    /\ UNCHANGED <<node, peers, alive, faults, receipts, mesh, ret>>

\* b answers the PING of a with a PONG that carries its chain height.
HandlePing(a, b) ==
    /\ alive[b] /\ chan[<<a, b>>] # <<>> /\ Head(chan[<<a, b>>]).mtype = "Ping"
    /\ chan' = deliver(pop(chan, a, b),
                       {[mtype |-> "Pong", from |-> b, to |-> a,
                         chainHeight |-> getHeight(node[b].chain)]})
    /\ UNCHANGED <<node, peers, alive, faults, beats, receipts, mesh, ret>>

\* b handles the PONG of a: the chainHeight of peer a is updated.
HandlePong(a, b) ==
    /\ alive[b] /\ chan[<<a, b>>] # <<>> /\ Head(chan[<<a, b>>]).mtype = "Pong"
    /\ chan' = pop(chan, a, b)
    /\ mesh' = [mesh EXCEPT !.chainHeight[b][a] = Head(chan[<<a, b>>]).chainHeight]
    /\ ret' = returned("handlePong", b, Head(chan[<<a, b>>]).chainHeight)
    /\ UNCHANGED <<node, peers, alive, faults, beats, receipts>>

\* The node orchestrator of a invokes sync programmatically.
SyncOnDemand(a) ==
    /\ alive[a]
    /\ LET run == syncFromPeers(a, {p \in peers[a] : connected(a, p)},
                                mesh.chainHeight[a])
       IN  /\ node' = [node EXCEPT ![a] = run.node]
           /\ ret' = returned("syncFromPeers", a, run.outcome)
    /\ UNCHANGED <<peers, alive, chan, faults, beats, receipts, mesh>>

NextHealth ==
    \/ /\ node["n1"].currentTerm < HMaxTerm
       /\ ElectionTimeout("n1") /\ withinNetworkBound(HMaxInFlight)
    \/ \E n \in Nodes : /\ Len(node[n].log) < HMaxLogLen
                         /\ BlockTimer(n) /\ withinNetworkBound(HMaxInFlight)
    \/ Submit("n1", TxA) /\ withinNetworkBound(HMaxInFlight)
    \/ \E pr \in Pairs :
          HandleRequestVote(pr[1], pr[2]) /\ withinNetworkBound(HMaxInFlight)
    \/ \E pr \in Pairs :
          HandleRequestVoteReply(pr[1], pr[2]) /\ withinNetworkBound(HMaxInFlight)
    \/ \E pr \in Pairs :
          HandleAppendEntries(pr[1], pr[2]) /\ withinNetworkBound(HMaxInFlight)
    \/ \E pr \in Pairs :
          HandleAppendEntriesReply(pr[1], pr[2]) /\ withinNetworkBound(HMaxInFlight)
    \/ \E pr \in Pairs : HandleTxBroadcast(pr[1], pr[2])
    \/ PeerConnected(Joiner, "n1")
    \/ \E n \in Nodes : /\ beats < HMaxPings
                         /\ PingAll(n) /\ withinNetworkBound(HMaxInFlight)
    \/ \E pr \in Pairs : HandlePing(pr[1], pr[2])
    \/ \E pr \in Pairs : HandlePong(pr[1], pr[2])
    \/ \E n \in Nodes : SyncOnDemand(n)

SpecHealth == InitJoin /\ [][NextHealth]_vars

(***************************************************************************)
(* Properties.                                                             *)
(***************************************************************************)
\* n has no open connection to any other node.
isolated(n) == \A m \in Nodes \ {n} : ~connected(n, m)

\* The entries of n's log up to its commitIndex.
committedEntries(n) ==
    {i \in 1..node[n].commitIndex : hasEntry(node[n].log, i)}

\* C1 (state-machine safety): two nodes never hand different blocks to
\* onBlockCommitted for the same log index, and their logs agree on every
\* index both have committed.
C1_StateMachineSafety ==
    \A a, b \in Nodes :
        /\ \A i \in 1..Min(Len(node[a].committed), Len(node[b].committed)) :
              node[a].committed[i] = node[b].committed[i]
        /\ \A i \in committedEntries(a) \cap committedEntries(b) :
              node[a].log[i] = node[b].log[i]

\* C2 (no false commits below quorum): a node of the three-node cluster
\* that has lost both other nodes never advances commitIndex and never
\* applies a block in a step it takes.
C2_NoCommitBelowQuorum ==
    [][\A n \in Nodes :
          isolated(n) =>
             /\ node'[n].commitIndex = node[n].commitIndex
             /\ node'[n].lastApplied = node[n].lastApplied
             /\ node'[n].committed = node[n].committed]_vars

\* C3 (current-term commit rule): whenever a leader moves its commitIndex,
\* the entry at the new commitIndex carries the leader's currentTerm.
C3_CurrentTermCommit ==
    [][\A n \in Nodes :
          (/\ node[n].role = Leader /\ node'[n].role = Leader
           /\ node'[n].commitIndex # node[n].commitIndex)
          => /\ hasEntry(node'[n].log, node'[n].commitIndex)
             /\ node'[n].log[node'[n].commitIndex].term = node'[n].currentTerm]_vars

\* A leader has committed index 2, an entry of its own term, and with it
\* the entry of an earlier term at index 1.
C3_Witness ==
    \E n \in Nodes :
        /\ node[n].role = Leader /\ node[n].commitIndex = 2
        /\ Len(node[n].log) = 2
        /\ node[n].log[1].term < node[n].currentTerm
        /\ node[n].log[2].term = node[n].currentTerm

\* C4 (leader completeness): a node that becomes Leader of term T holds, at
\* the same index and with the same term and block, every entry of a lower
\* term that some node has committed.
C4_LeaderCompleteness ==
    [][\A n \in Nodes :
          (node[n].role # Leader /\ node'[n].role = Leader)
          => \A m \in Nodes : \A i \in committedEntries(m) :
                node[m].log[i].term < node'[n].currentTerm
                => /\ hasEntry(node'[n].log, i)
                   /\ node'[n].log[i] = node[m].log[i]]_vars

\* The hashes of the transactions of a block.
blockTxHashes(block) ==
    {block.transactions[i].hash : i \in 1..Len(block.transactions)}

\* C5 (exactly-once application): on every node each block handed to
\* onBlockCommitted is applied to storage, no block is applied twice, and
\* the blocks are handed over in strictly increasing height order.
C5_ExactlyOnceApplication ==
    \A n \in Nodes :
        /\ \A i \in 1..Len(node[n].committed) :
              \E j \in 1..Len(node[n].blocks) : node[n].blocks[j] = node[n].committed[i]
        /\ \A i, j \in 1..Len(node[n].blocks) :
              i < j => node[n].blocks[i].height < node[n].blocks[j].height
        /\ \A i \in 1..(Len(node[n].committed) - 1) :
              node[n].committed[i].height < node[n].committed[i + 1].height

\* C6 (state root after application): in every step in which a node applies
\* a block to its storage, the state root computed on that node right after
\* the step equals the stateRoot of the block applied last.
C6_StateRootAfterApply ==
    [][\A n \in Nodes :
          node'[n].blocks # node[n].blocks
          => computeStateRoot(node'[n].worldState)
                = node'[n].blocks[Len(node'[n].blocks)].stateRoot]_vars

\* C7 (deterministic replay): two nodes that have applied the same sequence
\* of blocks and hold no pending transaction have the same world state and
\* the same state root.
C7_DeterministicReplay ==
    \A a, b \in Nodes :
        (/\ node[a].blocks = node[b].blocks
         /\ node[a].txPool = <<>> /\ node[b].txPool = <<>>)
        => /\ node[a].worldState = node[b].worldState
           /\ computeStateRoot(node[a].worldState) = computeStateRoot(node[b].worldState)

\* The transactions of a sequence of blocks, in order.
RECURSIVE txsOf(_)
txsOf(blocks) ==
    IF blocks = <<>> THEN <<>>
    ELSE Head(blocks).transactions \o txsOf(Tail(blocks))

\* C8 (atomic block application): in every step that changes a node's
\* chain or its blocks table, both grow by the same blocks and the world
\* state, the pending pool and the nonces reflect exactly those blocks; a
\* block application that fails leaves all five as they were.
C8_AtomicApplication ==
    [][\A n \in Nodes :
          LET r == node[n]
              r2 == node'[n]
              new == SubSeq(r2.chain, Len(r.chain) + 1, Len(r2.chain))
              txs == txsOf(new)
          IN  (r2.chain # r.chain \/ r2.blocks # r.blocks)
              => /\ r2.chain = r.chain \o new
                 /\ r2.blocks = r.blocks \o new
                 /\ r2.worldState = applyTransactions(r.worldState, txs)
                 /\ r2.txPool = removePending(r.txPool, {txs[i].hash : i \in 1..Len(txs)})
                 /\ r2.nonces = updateNonces(r.nonces, txs)]_vars

\* No transaction hash lies in two blocks of the sequence.
noRepeatedTx(blocks) ==
    \A i, j \in 1..Len(blocks) :
        i < j => blockTxHashes(blocks[i]) \cap blockTxHashes(blocks[j]) = {}

\* The height at which the blocks table confirms the hash (0: nowhere).
confirmedHeight(blocks, h) ==
    IF \E i \in 1..Len(blocks) : h \in blockTxHashes(blocks[i])
    THEN blocks[CHOOSE i \in 1..Len(blocks) : h \in blockTxHashes(blocks[i])].height
    ELSE 0

\* C9 (one block per transaction): after every step, no transaction hash
\* lies in two blocks of a node's chain or of its blocks table, and a
\* transaction confirmed before the step is confirmed at the same height
\* after it.
C9_TxInOneBlock ==
    [][\A n \in Nodes :
          /\ noRepeatedTx(node'[n].chain)
          /\ noRepeatedTx(node'[n].blocks)
          /\ \A tx \in TxUniverse :
                confirmedHeight(node[n].blocks, tx.hash) # 0
                => confirmedHeight(node'[n].blocks, tx.hash)
                      = confirmedHeight(node[n].blocks, tx.hash)]_vars

\* The nodes whose blocks table confirms the hash.
confirmedOn(h) == {n \in Nodes : confirmedHeight(node[n].blocks, h) # 0}

\* C10 (nonce replay protection): of two distinct transactions of one
\* sender that carry the same nonce, at most one is accepted and at most
\* one is ever confirmed.
C10_NonceReplayProtection ==
    \A t1, t2 \in TxUniverse :
        (t1 # t2 /\ t1.sender = t2.sender /\ t1.nonce = t2.nonce)
        => /\ ~(receipts[t1] = "pending" /\ receipts[t2] = "pending")
           /\ ~(confirmedOn(t1.hash) # {} /\ confirmedOn(t2.hash) # {})

\* The nodes whose process runs.
survivors == {n \in Nodes : alive[n]}

\* Exactly one node has failed and the other two are connected.
oneFailed ==
    /\ Cardinality(Nodes \ survivors) = 1
    /\ \A a, b \in survivors : a # b => connected(a, b)

\* Node s was handed the block by Raft and holds it in its chain and in its
\* blocks table.
committedAndApplied(s, block) ==
    /\ \E j \in 1..Len(node[s].committed) : node[s].committed[j] = block
    /\ \E j \in 1..Len(node[s].chain) : node[s].chain[j] = block
    /\ \E j \in 1..Len(node[s].blocks) : node[s].blocks[j] = block

\* Replication under leader l has come to rest: no message is on its way
\* and every survivor holds the leader's log, has committed all of it and
\* has run its apply loop over all of it.
atRest(l) ==
    /\ \A pr \in Pairs : chan[pr] = <<>>
    /\ \A s \in survivors :
          /\ node[s].log = node[l].log
          /\ node[s].commitIndex = Len(node[l].log)
          /\ node[s].lastApplied = node[s].commitIndex

\* C11 (progress with one failure), in the form a finite run refutes: when
\* exactly one node has failed, the other two are connected and
\* replication under the leader has come to rest, every block the leader
\* proposed in its term is committed and applied on both surviving nodes
\* (an entry the apply loop has passed is never applied later).
C11_ProgressWithOneFailure ==
    \A l \in survivors :
        (oneFailed /\ node[l].role = Leader /\ atRest(l))
        => \A i \in 1..Len(node[l].log) :
              node[l].log[i].term = node[l].currentTerm
              => \A s \in survivors :
                    committedAndApplied(s, node[l].log[i].block)

\* C12 (failover), the part a finite run refutes: once the leader of term 1
\* has crashed, a remaining node that becomes leader does so in term 2.
C12_FailoverTerm ==
    [][\A n \in Nodes :
          (/\ ~alive[Starter] /\ node[Starter].role = Leader
           /\ node[Starter].currentTerm = 1
           /\ node[n].role # Leader /\ node'[n].role = Leader)
          => node'[n].currentTerm = 2]_vars

\* Node s holds, in its blocks table, a block with the transaction that
\* Raft handed to it as committed.
confirmedAndCommitted(s, h) ==
    \E j \in 1..Len(node[s].blocks) :
        /\ h \in blockTxHashes(node[s].blocks[j])
        /\ \E k \in 1..Len(node[s].committed) :
              node[s].committed[k] = node[s].blocks[j]

inFlightOf(ch, mtype) ==
    {<<pr, i>> \in Pairs \X (1..8) : i <= Len(ch[pr]) /\ ch[pr][i].mtype = mtype}

\* n is the only voter of its cluster.
soleVoter(n) == getKnownNodeIds(n) = {}

\* C14: a node that is the only voter of its cluster becomes Leader in the
\* step of its election timeout, and no RequestVote is sent in that step;
\* every step in which it then proposes a block leaves commitIndex =
\* lastApplied = lastLogIndex, with the proposed block handed to its
\* onBlockCommitted callback and stored in its blocks table.
C14_SingleVoter ==
    [][\A n \in Nodes :
          soleVoter(n) =>
             /\ (node'[n].currentTerm > node[n].currentTerm)
                   => /\ node'[n].role = Leader
                      /\ inFlightOf(chan', "RequestVote") = {}
             /\ (Len(node'[n].log) > Len(node[n].log))
                   => LET r == node'[n]
                          block == r.log[Len(r.log)].block
                      IN  /\ node[n].role = Leader
                          /\ r.commitIndex = Len(r.log)
                          /\ r.lastApplied = Len(r.log)
                          /\ r.committed # <<>>
                          /\ r.committed[Len(r.committed)] = block
                          /\ r.blocks # <<>>
                          /\ r.blocks[Len(r.blocks)] = block]_vars

\* A sole voter leads its cluster and has proposed a block.
C14_Witness ==
    \E n \in Nodes : /\ soleVoter(n) /\ alive[n]
                      /\ node[n].role = Leader /\ node[n].currentTerm = 1
                      /\ Len(node[n].log) = 1 /\ node[n].commitIndex = 1
                      /\ Len(node[n].blocks) = 1

\* C15: on every node lastApplied <= commitIndex <= lastLogIndex in every
\* reachable state (the apply loop itself moves lastApplied one entry at a
\* time up to commitIndex, handing each entry's block to the callback).
C15_AppliedWithinCommitted ==
    \A n \in Nodes :
        /\ node[n].lastApplied <= node[n].commitIndex
        /\ node[n].commitIndex <= getLastIndex(node[n].log)


\* b handles the oldest message from a in this step.
handles(a, b) ==
    /\ alive[b] /\ chan[<<a, b>>] # <<>>
    /\ chan'[<<a, b>>] = Tail(chan[<<a, b>>])
    /\ alive' = alive

\* n sends p a message in this step.
sends(n, p) == Len(chan'[<<n, p>>]) > Len(chan[<<n, p>>])

\* C16: a node in any role that handles a RequestVote or AppendEntries of a
\* term above its own is, after that step, a Follower of the received term
\* with its heartbeat timer stopped and its earlier vote cleared (votedFor
\* is null, or the candidate it grants this request to); and a node sends
\* AppendEntries only as the Leader of the term the message carries, so a
\* leader that stepped down sends none.
C16_StepDown ==
    [][/\ \A pr \in Pairs :
             LET a == pr[1]
                 b == pr[2]
                 msg == Head(chan[<<a, b>>])
             IN  (/\ handles(a, b)
                  /\ msg.mtype \in {"RequestVote", "AppendEntries"}
                  /\ msg.term > node[b].currentTerm)
                 => /\ node'[b].role = Follower
                    /\ node'[b].currentTerm = msg.term
                    /\ ~node'[b].heartbeatTimer
                    /\ node'[b].votedFor =
                          IF /\ msg.mtype = "RequestVote"
                             /\ sends(b, a)
                             /\ chan'[<<b, a>>][Len(chan'[<<b, a>>])].voteGranted
                          THEN msg.candidateId ELSE Nil
       /\ \A pr \in Pairs :
             LET n == pr[1]
                 p == pr[2]
                 sent == chan'[<<n, p>>][Len(chan'[<<n, p>>])]
             IN  (sends(n, p) /\ sent.mtype = "AppendEntries")
                 => /\ node'[n].role = Leader
                    /\ sent.term = node'[n].currentTerm]_vars

\* A node that led on its own in term 1 and proposed a block has joined the
\* cluster and stepped down on the AppendEntries of the leader of term 2.
C16_Witness ==
    /\ node[Joiner].role = Follower /\ node[Joiner].currentTerm = 2
    /\ node[Joiner].votedFor = Nil /\ ~node[Joiner].heartbeatTimer
    /\ node[Joiner].leaderId \in peers[Joiner]
    /\ \E i \in 1..Len(node[Joiner].log) :
          /\ node[Joiner].log[i].term = 1
          /\ node[Joiner].log[i].block.proposer = Joiner


\* C17: the reply to a RequestVote grants the vote exactly when the
\* candidate's term is at least the voter's, the voter's vote of that term
\* (none after a step-down on a higher term) is null or this candidate, and
\* the candidate's (lastLogTerm, lastLogIndex) is at least the voter's own
\* in lexicographic order; a granted vote is recorded in votedFor.
C17_VoteGranting ==
    [][\A pr \in Pairs :
          LET a == pr[1]
              b == pr[2]
              msg == Head(chan[<<a, b>>])
              voter == node[b]
              vote == IF msg.term > voter.currentTerm THEN Nil ELSE voter.votedFor
              ownTerm == IF voter.log = <<>> THEN 0
                         ELSE voter.log[Len(voter.log)].term
              rule == /\ msg.term >= voter.currentTerm
                      /\ vote = Nil \/ vote = msg.candidateId
                      /\ \/ msg.lastLogTerm > ownTerm
                         \/ /\ msg.lastLogTerm = ownTerm
                            /\ msg.lastLogIndex >= Len(voter.log)
              reply == chan'[<<b, a>>][Len(chan'[<<b, a>>])]
          IN  (handles(a, b) /\ msg.mtype = "RequestVote")
              => /\ sends(b, a)
                 /\ reply.mtype = "RequestVoteReply"
                 /\ reply.voteGranted = rule
                 /\ rule => node'[b].votedFor = msg.candidateId
                 /\ ~rule => node'[b].votedFor = vote]_vars

\* A vote denied for the log alone: the voter is in the candidate's term,
\* has given its vote to nobody and holds a longer log than the candidate.
C17_Witness ==
    \E pr \in Pairs :
        LET voter == node[pr[1]]
            candidate == node[pr[2]]
        IN  /\ chan[pr] # <<>>
            /\ Head(chan[pr]).mtype = "RequestVoteReply"
            /\ ~Head(chan[pr]).voteGranted
            /\ Head(chan[pr]).term = candidate.currentTerm
            /\ candidate.role = Candidate
            /\ voter.currentTerm = candidate.currentTerm
            /\ voter.votedFor = Nil
            /\ Len(voter.log) > Len(candidate.log)


\* The hash the block at position i of chain must name as its predecessor.
predecessorHash(chain, i) == IF i = 1 THEN GenesisHash ELSE chain[i - 1].hash

\* C18: every node's chain has contiguous heights 1, 2, ... and every block
\* of it names the hash of the block before it (the genesis hash for the
\* first) as previousHash, whatever blocks the node was handed by Raft
\* commits or by sync: appendBlock takes a block only at height tip + 1 on
\* top of the tip's hash.
C18_ChainLinkage ==
    \A n \in Nodes :
        \A i \in 1..Len(node[n].chain) :
            /\ node[n].chain[i].height = i
            /\ node[n].chain[i].previousHash = predecessorHash(node[n].chain, i)

\* What a's synchronisation run would fetch from p now.
syncResponse(a, p) ==
    requestBlocks(p, getHeight(node[a].chain) + 1, getHeight(node[p].chain))

\* A node's best peer answers its request with blocks that start above the
\* height asked for (its blocks table has a gap), so the run hands the
\* chain a block that does not link to the tip.
C18_Witness ==
    \E a \in Nodes : \E p \in bestPeers(a) :
        /\ syncResponse(a, p) # <<>>
        /\ Head(syncResponse(a, p)).height > getHeight(node[a].chain) + 1


\* The hash field of block is the hash of its header fields.
hashVerifies(block) ==
    block.hash = computeBlockHash(block.height, block.previousHash, block.merkleRoot,
                                  block.stateRoot, block.proposer)

\* The signature of block is the proposer's signature of its hash.
signatureVerifies(block) == block.signature = sign(block.hash, block.proposer)

\* C19: every block of every node's chain, however it got there, has a
\* hash field equal to the hash recomputed from its header and a signature
\* that verifies against its proposer's key.
C19_OnlyVerifiedBlocks ==
    \A n \in Nodes :
        \A i \in 1..Len(node[n].chain) :
            hashVerifies(node[n].chain[i]) /\ signatureVerifies(node[n].chain[i])


\* The number of state:set transactions of txs that write key k.
RECURSIVE writesTo(_, _)
writesTo(txs, k) ==
    IF txs = <<>> THEN 0
    ELSE (IF Head(txs).type = "state:set" /\ Head(txs).key = k THEN 1 ELSE 0)
         + writesTo(Tail(txs), k)

\* C20: on every node with no transaction pending, the version of every
\* key is the number of committed writes to it (the transactions of the
\* node's blocks table, none of which deletes): 1 after the first write
\* and one more after each later write.
C20_VersionCountsWrites ==
    \A n \in Nodes : \A k \in Keys :
        node[n].txPool = <<>>
        => node[n].worldState[k].version = writesTo(txsOf(node[n].blocks), k)


\* Node b holds every block node a holds.
caughtUp(b, a) ==
    /\ connected(b, a)
    /\ getHeight(node[a].chain) > 0
    /\ getHeight(node[b].chain) = getHeight(node[a].chain)

\* C21: a fresh node that has connected to the node that committed the
\* blocks and has reached its height holds the same chain, block for block,
\* and computes the same state root.
C21_CatchUpSync ==
    \A b \in Fresh :
        caughtUp(b, Proposer)
        => /\ node[b].chain = node[Proposer].chain
           /\ computeStateRoot(node[b].worldState)
                 = computeStateRoot(node[Proposer].worldState)


connectedEnds(n, m) ==
    {c \in Conns : \/ c[1] = n /\ c[2] = m /\ mesh.conn[c].dialler = "connected"
                   \/ c[2] = n /\ c[1] = m /\ mesh.conn[c].listener = "connected"}

\* The node at one end of connection c handles a handshake message of the
\* given type that claims its own node id or a node id of its peer map.
claimsTaken(c, me, q, type) ==
    /\ headOf(q, type)
    /\ Head(q).nodeId = me \/ Head(q).nodeId \in DOMAIN mesh.entry[me]
    /\ mesh'.conn[c] # mesh.conn[c]

\* C23: a peer map never holds the node's own id and never two connected
\* connections of one remote node id; a handshake that claims the local
\* node id or a node id already in the peer map closes the new connection
\* and leaves the peer map as it was, also when two nodes dial each other
\* at the same time.
C23_PeerMapUnique ==
    /\ [](\A n \in Nodes :
            /\ n \notin peers[n]
            /\ peers[n] = DOMAIN mesh.entry[n]
            /\ \A m \in Nodes : Cardinality(connectedEnds(n, m)) <= 1)
    /\ [][\A c \in Conns :
            /\ ( /\ mesh.conn[c].listener = "connecting"
                 /\ claimsTaken(c, c[2], mesh.conn[c].down, "HANDSHAKE") )
               => /\ mesh'.conn[c].listener = "closed"
                  /\ mesh'.entry[c[2]] = mesh.entry[c[2]]
                  /\ peers'[c[2]] = peers[c[2]]
            /\ ( /\ mesh.conn[c].dialler = "connecting"
                 /\ claimsTaken(c, c[1], mesh.conn[c].up, "HANDSHAKE_ACK") )
               => /\ mesh'.conn[c].dialler = "closed"
                  /\ mesh'.entry[c[1]] = mesh.entry[c[1]]
                  /\ peers'[c[1]] = peers[c[1]]]_vars

\* Two nodes dialled each other; b registered a on the connection it
\* dialled and closed the connection a dialled as a duplicate, and a node
\* that dialled its own address closed that connection.
C23_Witness ==
    /\ \E a, b \in Nodes :
        /\ a # b
        /\ mesh.conn[<<a, b, 1>>].listener = "closed"
        /\ b \in DOMAIN mesh.entry[a] => mesh.entry[a][b] = <<b, a, 1>>
        /\ a \in DOMAIN mesh.entry[b] /\ mesh.entry[b][a] = <<b, a, 1>>
    /\ \E n \in Nodes : mesh.conn[<<n, n, 1>>].listener = "closed"


\* The nodes a configured address joins to n, directly or through others.
RECURSIVE seedReach(_, _)
seedReach(seeds, seen) ==
    LET more == {b \in Nodes : \E a \in seen : b \in seeds[a] \/ a \in seeds[b]}
    IN  IF more \subseteq seen THEN seen ELSE seedReach(seeds, seen \cup more)

seedGraphConnected == \A n \in Nodes : seedReach(mesh.seeds, {n}) = Nodes

\* Every configured address is dialled and every message handled.
bootstrapAtRest ==
    /\ \A n \in Nodes : mesh.toDial[n] = {}
    /\ \A c \in Conns : mesh.conn[c].down = <<>> /\ mesh.conn[c].up = <<>>
    /\ ~mesh.overrun

\* C24: when the configured seed addresses join all nodes, the handshakes
\* and peer lists leave every two nodes connected to each other.
C24_FullMesh ==
    (seedGraphConnected /\ bootstrapAtRest)
        => \A a, b \in Nodes : a # b => b \in peers[a] /\ a \in peers[b]


\* Node n holds the accepted transaction tx in its pool, is not the leader
\* and knows the leader l, to which it is connected and for which the
\* nonce of tx is still the sender's next; no message is in flight.
waitsForLeader(n, tx, l) ==
    /\ receipts[tx] = "pending" /\ acceptsTx(node[l], tx)
    /\ tx.hash \in poolHashes(node[n].txPool)
    /\ node[n].role # Leader /\ node[n].leaderId = l /\ l # n
    /\ node[l].role = Leader /\ node[l].currentTerm = node[n].currentTerm
    /\ connected(n, l)
    /\ \A pr \in Pairs : chan[pr] = <<>>

\* The leader l has tx: pending in its pool or in a block of its log.
leaderHas(l, tx) ==
    \/ tx.hash \in poolHashes(node[l].txPool)
    \/ \E i \in 1..Len(node[l].log) : tx.hash \in poolHashes(node[l].log[i].block.transactions)

\* C25: a transaction a non-leader accepted is not lost: once the node
\* knows a leader and every message is handled, that leader has it.
C25_ReachesLeader ==
    \A n, l \in Nodes : \A tx \in TxUniverse :
        waitsForLeader(n, tx, l) => leaderHas(l, tx)


\* C26: computeStateRoot changes nothing in the store, returns the
\* all-zero root exactly when the world state is empty, and returns the
\* same root when called again with no write in between.
C26_StateRoot ==
    [][ret'.method = "computeStateRoot" =>
          /\ node' = node
          /\ (\E k \in Keys : hasRow(node[ret'.node].worldState, k))
                <=> ret'.value # ZeroRoot
          /\ (ret.method = "computeStateRoot" /\ ret.node = ret'.node)
                => ret'.value = ret.value]_vars

\* The root of a store holding one row written once is returned.
C26_Witness ==
    /\ ret.method = "computeStateRoot" /\ ret.value # ZeroRoot
    /\ \E k \in Keys :
        /\ node[ret.node].worldState[k].version = 1
        /\ \A o \in Keys \ {k} : ~hasRow(node[ret.node].worldState, o)


\* C27: a query call leaves world state, blocks, pending pool and nonces
\* of the node as they were, and a text whose first word is not SELECT is
\* answered with the error and not run.
C27_QueryReadOnly ==
    [][(ret' # ret /\ ret'.method = "query") =>
          /\ node' = node
          /\ toUpperCase(ret'.value.sql.first) # "SELECT" => ret'.value.error = OnlySelect]_vars

\* A DELETE was rejected on a node that holds a block, a row and a nonce.
C27_Witness ==
    /\ ret.method = "query" /\ ret.value.sql.first = "delete" /\ ret.value.error = OnlySelect
    /\ node[ret.node].blocks # <<>>
    /\ \E k \in Keys : hasRow(node[ret.node].worldState, k)
    /\ \E s \in Senders : node[ret.node].nonces[s] # NoNonce


\* C28: two consecutive committed log entries of a node hold consecutive
\* blocks: the second block's height is the first's plus one and its
\* previousHash is the first's hash.
C28_LogChainAgree ==
    \A n \in Nodes : \A i \in 1..(node[n].commitIndex - 1) :
        hasEntry(node[n].log, i + 1) =>
            /\ node[n].log[i + 1].block.height = node[n].log[i].block.height + 1
            /\ node[n].log[i + 1].block.previousHash = node[n].log[i].block.hash


\* b handles an AppendEntries of a in this step and accepts it: the term
\* is not below its own and the entry at prevLogIndex matches.
acceptsAppendEntries(a, b) ==
    /\ handles(a, b)
    /\ Head(chan[<<a, b>>]).mtype = "AppendEntries"
    /\ Head(chan[<<a, b>>]).term >= node[b].currentTerm
    /\ logMatches(node[b].log, Head(chan[<<a, b>>]).prevLogIndex,
                  Head(chan[<<a, b>>]).prevLogTerm)

\* C29: after a follower accepts an AppendEntries, its commit index lies
\* within the range the message verified (prevLogIndex plus the entries
\* received), nothing beyond that range is applied in the step, and every
\* entry up to the commit index is the entry the sending leader holds at
\* that index.
C29_CommittedAsLeader ==
    [][\A pr \in Pairs :
          acceptsAppendEntries(pr[1], pr[2]) =>
              LET m == Head(chan[pr])
                  verified == m.prevLogIndex + Len(m.entries)
                  after == node'[pr[2]]
              IN  /\ after.commitIndex <= verified
                  /\ after.lastApplied <= Max(node[pr[2]].lastApplied, verified)
                  /\ (node[pr[1]].role = Leader /\ node[pr[1]].currentTerm = m.term)
                        => \A i \in 1..after.commitIndex :
                              /\ hasEntry(node[pr[1]].log, i)
                              /\ after.log[i] = node[pr[1]].log[i]]_vars



\* C30: no step removes or replaces an entry of a node's log at an index
\* up to its commit index or its last applied index, and a node that is
\* Leader before and after a step keeps every entry of its log.
C30_CommittedPrefixStable ==
    [][\A n \in Nodes :
          /\ \A i \in 1..Max(node[n].commitIndex, node[n].lastApplied) :
                hasEntry(node[n].log, i)
                    => hasEntry(node'[n].log, i) /\ node'[n].log[i] = node[n].log[i]
          /\ (node[n].role = Leader /\ node'[n].role = Leader)
                => /\ Len(node'[n].log) >= Len(node[n].log)
                   /\ SubSeq(node'[n].log, 1, Len(node[n].log)) = node[n].log]_vars


\* C31: no two nodes are Leader in the same term.
C31_ElectionSafety ==
    \A a, b \in Nodes :
        (/\ node[a].role = Leader /\ node[b].role = Leader
         /\ node[a].currentTerm = node[b].currentTerm) => a = b


\* C32: when the logs of two nodes hold entries of the same term at the
\* same index, the two logs are identical, term and block, at that index
\* and at every lower index.
C32_LogMatching ==
    \A a, b \in Nodes :
        \A i \in 1..Min(Len(node[a].log), Len(node[b].log)) :
            node[a].log[i].term = node[b].log[i].term
                => \A j \in 1..i : node[a].log[j] = node[b].log[j]


\* C33: no step lowers the commit index of a node.
C33_CommitIndexMonotonic ==
    [][\A n \in Nodes : node'[n].commitIndex >= node[n].commitIndex]_vars


\* C34: a state root just returned for one store is the state root of
\* another store only when the two world states are equal, keys, values
\* and versions.
C34_SerializationInjective ==
    (ret.method = "computeStateRoot" /\ ret.value # ZeroRoot)
        => \A b \in Nodes :
              (/\ \E k \in Keys : hasRow(node[b].worldState, k)
               /\ computeStateRoot(node[b].worldState) = ret.value)
                  => node[b].worldState = node[ret.node].worldState


\* a handles a failed AppendEntriesReply of b in this step, as the Leader
\* of the term the reply carries.
handlesFailure(a, b) ==
    /\ handles(b, a)
    /\ Head(chan[<<b, a>>]).mtype = "AppendEntriesReply"
    /\ ~Head(chan[<<b, a>>]).success
    /\ Head(chan[<<b, a>>]).term = node[a].currentTerm
    /\ node[a].role = Leader

\* C35: a Leader that handles a failed reply sends the follower, in the
\* same step, an AppendEntries that starts further back (or at the first
\* entry), and a follower that accepts an AppendEntries of a node that is
\* still Leader of that term holds, after the step, the leader's entries
\* up to the last index the message carried.
C35_LogRepairConverges ==
    [][\A pr \in Pairs :
          /\ handlesFailure(pr[1], pr[2]) =>
                /\ sends(pr[1], pr[2])
                /\ LET retry == chan'[pr][Len(chan'[pr])]
                   IN  /\ retry.mtype = "AppendEntries"
                       /\ retry.prevLogIndex + Len(retry.entries) = Len(node[pr[1]].log)
                       /\ \/ retry.prevLogIndex = 0
                          \/ retry.prevLogIndex
                               < mapGet(node[pr[1]].nextIndex, pr[2],
                                        Len(node[pr[1]].log) + 1) - 1
          /\ (/\ acceptsAppendEntries(pr[1], pr[2])
              /\ node'[pr[2]].role = Follower
              /\ node[pr[1]].role = Leader
              /\ node[pr[1]].currentTerm = Head(chan[pr]).term) =>
                LET m == Head(chan[pr])
                    last == m.prevLogIndex + Len(m.entries)
                IN  /\ Len(node'[pr[2]].log) >= last
                    /\ SubSeq(node'[pr[2]].log, 1, last)
                          = SubSeq(node[pr[1]].log, 1, last)]_vars


\* C36: a Leader holds, for every peer of its peer map, a nextIndex between
\* 1 and its last log index plus one and a matchIndex below that nextIndex;
\* and while a node stays Leader of one term no matchIndex it holds for a
\* peer decreases.
C36_ReplicationIndexes ==
    /\ [](\A l \in Nodes :
            (alive[l] /\ node[l].role = Leader) =>
                \A p \in getKnownNodeIds(l) :
                    /\ p \in DOMAIN node[l].nextIndex
                    /\ node[l].nextIndex[p] >= 1
                    /\ node[l].nextIndex[p] <= getLastIndex(node[l].log) + 1
                    /\ mapGet(node[l].matchIndex, p, 0) < node[l].nextIndex[p])
    /\ [][\A l \in Nodes :
            (/\ node[l].role = Leader /\ node'[l].role = Leader
             /\ node'[l].currentTerm = node[l].currentTerm) =>
                \A p \in (DOMAIN node[l].matchIndex) \ {l} :
                    /\ p \in DOMAIN node'[l].matchIndex
                    /\ node'[l].matchIndex[p] >= node[l].matchIndex[p]]_vars


\* b handles an AppendEntries of a in this step whose term is below its own
\* or whose prevLogIndex names an entry that b lacks or holds with another
\* term.
refusesAppendEntries(a, b) ==
    /\ handles(a, b)
    /\ Head(chan[<<a, b>>]).mtype = "AppendEntries"
    /\ LET m == Head(chan[<<a, b>>])
       IN  \/ m.term < node[b].currentTerm
           \/ /\ m.prevLogIndex > 0
              /\ \/ m.prevLogIndex > Len(node[b].log)
                 \/ node[b].log[m.prevLogIndex].term # m.prevLogTerm

\* C37: a node that handles an AppendEntries of a lower term, or one whose
\* prevLogIndex entry it does not hold with term prevLogTerm, answers with a
\* failure and keeps its log, commitIndex and lastApplied.
C37_RejectedAppendEntries ==
    [][\A pr \in Pairs :
          refusesAppendEntries(pr[1], pr[2]) =>
              LET back == <<pr[2], pr[1]>>
              IN  /\ Len(chan'[back]) = Len(chan[back]) + 1
                  /\ chan'[back][Len(chan'[back])].mtype = "AppendEntriesReply"
                  /\ ~chan'[back][Len(chan'[back])].success
                  /\ node'[pr[2]].log = node[pr[2]].log
                  /\ node'[pr[2]].commitIndex = node[pr[2]].commitIndex
                  /\ node'[pr[2]].lastApplied = node[pr[2]].lastApplied]_vars

\* A failure is on its way to a Leader in the Leader's own term, sent by a
\* node that has committed and applied nothing and holds no entry: the
\* consistency check failed, not the term check.
C37_Witness ==
    \E pr \in Pairs :
        /\ chan[pr] # <<>>
        /\ chan[pr][Len(chan[pr])].mtype = "AppendEntriesReply"
        /\ ~chan[pr][Len(chan[pr])].success
        /\ chan[pr][Len(chan[pr])].term = node[pr[2]].currentTerm
        /\ node[pr[2]].role = Leader /\ Len(node[pr[2]].log) > 0
        /\ node[pr[1]].log = <<>>


\* The nonce of the last transaction of sender s in the blocks applied on
\* node n, plus one; 0 when no applied block holds a transaction of s.
nextNonceAfter(n, s) ==
    LET txs == SelectSeq(txsOf(node[n].blocks), LAMBDA t : t.sender = s)
    IN  IF txs = <<>> THEN 0 ELSE txs[Len(txs)].nonce + 1

\* C38: on every node getNextNonce(s) is 0 for a sender with no transaction
\* in an applied block, and otherwise one more than the nonce of the
\* sender's last applied transaction.
C38_NextNonceAfterBlock ==
    \A n \in Nodes, s \in Senders :
        getNextNonce(node[n].nonces, s) = nextNonceAfter(n, s)


\* C39: a Candidate that handles (not loses) an AppendEntries of its own
\* term is, after the step, a Follower with the sender as leaderId and a
\* running election timer; and a Follower becomes Candidate or Leader only in a step that
\* raises its term, so that node is never Leader of that term.
C39_CandidateYields ==
    [][/\ \A pr \in Pairs :
             (/\ handles(pr[1], pr[2]) /\ faults' = faults
              /\ Head(chan[pr]).mtype = "AppendEntries"
              /\ node[pr[2]].role = Candidate
              /\ Head(chan[pr]).term = node[pr[2]].currentTerm) =>
                 /\ node'[pr[2]].role = Follower
                 /\ node'[pr[2]].leaderId = pr[1]
                 /\ node'[pr[2]].electionTimer
                 /\ node'[pr[2]].currentTerm = node[pr[2]].currentTerm
       /\ \A n \in Nodes :
             /\ (node[n].role = Follower /\ node'[n].role = Leader)
                    => node'[n].currentTerm > node[n].currentTerm
             /\ (node[n].role = Follower /\ node'[n].role = Candidate)
                    => node'[n].currentTerm > node[n].currentTerm]_vars

\* A node that voted for itself in this term now follows the Leader of
\* the term.
C39_Witness ==
    \E a, b \in Nodes :
        /\ a # b /\ node[a].role = Leader /\ node[b].role = Follower
        /\ node[b].currentTerm = node[a].currentTerm
        /\ node[b].votedFor = b /\ node[b].leaderId = a


\* b handles a PONG of its connected peer a that reports a chain height
\* above the local height of b.
pongReportsHigher(a, b) ==
    /\ handles(a, b) /\ peers' = peers /\ connected(a, b)
    /\ Head(chan[<<a, b>>]).mtype = "Pong"
    /\ Head(chan[<<a, b>>]).chainHeight > getHeight(node[b].chain)

\* The handshake of a and b completes and b, the peer of a, reports a
\* chain height above the local height of a.
handshakeReportsHigher(a, b) ==
    /\ b \notin peers[a] /\ b \in peers'[a] /\ a \in peers'[b]
    /\ getHeight(node[b].chain) > getHeight(node[a].chain)

\* The step starts a sync run on node a.
startsSyncRun(a) ==
    /\ ret'.method = "syncFromPeers" /\ ret'.node = a /\ ret'.value # "no peer"

\* C40: a step in which a node learns, from the handshake or from a PONG,
\* that a connected peer has a chain height above its own starts a sync
\* run on that node.
C40_HigherPeerStartsSync ==
    [][\A pr \in Pairs :
          (pongReportsHigher(pr[1], pr[2]) \/ handshakeReportsHigher(pr[2], pr[1]))
              => startsSyncRun(pr[2])]_vars

=========================================================================
